---- MODULE Spec2Model ----
(***************************************************************************)
(* A model of the nutrition core of AI-NutritionAgent:                     *)
(*   src/tools/kbju_calculator.py   (calculate_kbju and its helpers)       *)
(*   src/tools/validation_tool.py   (validate_consultation_data)           *)
(*                                                                         *)
(* Numbers.  The Python code computes on floats.  The model computes on    *)
(* exact rationals <<n, d>> (d > 0, lowest terms), so it agrees with the   *)
(* code wherever the float result is the correctly rounded exact result    *)
(* and no comparison sits within one ulp of its threshold.  round(x, 1)    *)
(* is rounding to the nearest tenth, ties to even.                         *)
(*                                                                         *)
(* Strings that the code inspects character by character (the dietary      *)
(* lists) are sequences of one-character strings, so that lower() and the  *)
(* substring test "kw in phrase" are computed, not assumed.                *)
(*                                                                         *)
(* None is the empty tuple; a supplied optional value x is <<x>>.          *)
(***************************************************************************)
EXTENDS Integers, Sequences, FiniteSets, TLC

VARIABLES
    pc,      \* "idle" | "called" | "returned": position of the caller
    call,    \* the tool call in progress or last made: [fn, args]
    ret,     \* the value the last call returned (a Python dict as a record)
    locals,  \* the callee's local findings lists when it returned
    state,   \* tool_context.state: the session's key -> value mapping
    log      \* the calls the caller has completed, oldest first: [fn, args, ret]

vars == <<pc, call, ret, locals, state, log>>

None == << >>

Some(x) == <<x>>

(***************************************************************************)
(* Exact rational arithmetic                                               *)
(***************************************************************************)
Abs(x) == IF x < 0 THEN -x ELSE x

RECURSIVE GCD(_, _)
GCD(a, b) == IF b = 0 THEN a ELSE GCD(b, a % b)

\* n/d in lowest terms with a positive denominator (d # 0)
Rat(n, d) ==
    LET g == GCD(Abs(n), Abs(d))
        s == IF d < 0 THEN -1 ELSE 1
    IN  <<(s * n) \div g, (s * d) \div g>>

Int2Rat(i) == <<i, 1>>

RAdd(x, y) ==
    LET g == GCD(x[2], y[2])
        l == (x[2] \div g) * y[2]
    IN  Rat(x[1] * (l \div x[2]) + y[1] * (l \div y[2]), l)

RNeg(x) == <<-x[1], x[2]>>

RSub(x, y) == RAdd(x, RNeg(y))

\* cross-cancelled before multiplying, to keep the intermediate products small
RMul(x, y) ==
    LET a == Rat(x[1], y[2])
        b == Rat(y[1], x[2])
    IN  <<a[1] * b[1], a[2] * b[2]>>

\* y # 0
RDiv(x, y) == RMul(x, Rat(y[2], y[1]))

RSign(x) == IF x[1] < 0 THEN -1 ELSE IF x[1] = 0 THEN 0 ELSE 1

RLt(x, y) == RSign(RSub(x, y)) < 0

RGt(x, y) == RLt(y, x)

RLe(x, y) == ~RLt(y, x)

RAbs(x) == <<Abs(x[1]), x[2]>>

\* the integer nearest to x, ties to even
RoundHalfEven(x) ==
    LET q == x[1] \div x[2]
        r == x[1] % x[2]
    IN  IF 2 * r < x[2] THEN q
        ELSE IF 2 * r > x[2] THEN q + 1
        ELSE IF q % 2 = 0 THEN q ELSE q + 1

\* Python round(x, 1)
Round1(x) ==
    LET q == x[1] \div x[2]
        r == x[1] % x[2]
    IN  RAdd(Int2Rat(q), Rat(RoundHalfEven(<<10 * r, x[2]>>), 10))

(***************************************************************************)
(* kbju_calculator.py                                                      *)
(***************************************************************************)
\* the male constant for everybody: what C27 must detect
calculate_bmr_unisex(weight_kg, height_cm, age, gender) ==
    RAdd(RSub(RAdd(RMul(Int2Rat(10), weight_kg), RMul(Rat(25, 4), height_cm)),
              Int2Rat(5 * age)),
         Int2Rat(5))

\* calculate_bmr: Mifflin-St Jeor; 6.25 = 25/4
calculate_bmr(weight_kg, height_cm, age, gender) ==
    LET base == RSub(RAdd(RMul(Int2Rat(10), weight_kg),
                          RMul(Rat(25, 4), height_cm)),
                     Int2Rat(5 * age))
    IN  IF gender = "male"
        THEN RAdd(base, Int2Rat(5))
        ELSE RSub(base, Int2Rat(161))

\* the multipliers dict: 1.2, 1.375, 1.55, 1.725, 1.9
multipliers ==
    [sedentary         |-> Rat(6, 5),
     lightly_active    |-> Rat(11, 8),
     moderately_active |-> Rat(31, 20),
     very_active       |-> Rat(69, 40),
     extremely_active  |-> Rat(19, 10)]

\* a default of 1.0 for an unknown level: what C23 must detect
get_activity_multiplier_unit(activity_level) ==
    IF activity_level \in DOMAIN multipliers
    THEN multipliers[activity_level]
    ELSE Int2Rat(1)

\* multipliers.get(activity_level, 1.2)
get_activity_multiplier(activity_level) ==
    IF activity_level \in DOMAIN multipliers
    THEN multipliers[activity_level]
    ELSE Rat(6, 5)

goal_adjustments ==
    [weight_loss |-> [slow |-> -250, moderate |-> -500, aggressive |-> -750],
     maintenance |-> [slow |-> 0,    moderate |-> 0,    aggressive |-> 0],
     muscle_gain |-> [slow |-> 200,  moderate |-> 350,  aggressive |-> 500],
     recomp      |-> [slow |-> 0,    moderate |-> 0,    aggressive |-> 0]]

\* goal_adjustments[goal][goal_rate] raises KeyError for a key not in the table
adjustment_raises(goal, goal_rate) ==
    \/ goal \notin DOMAIN goal_adjustments
    \/ goal_rate \notin DOMAIN goal_adjustments[goal]

\* a report that always names the goal: what C13 must detect
missing_key_goal(goal, goal_rate) == goal

\* str(KeyError(k)) is repr(k): the first missing key
missing_key(goal, goal_rate) ==
    IF goal \notin DOMAIN goal_adjustments THEN goal ELSE goal_rate

\* a calorie floor that ignores the sex: what C7 must detect
min_calories_unisex(gender) == 1500

\* min_calories = 1200 if gender == "female" else 1500
min_calories(gender) == IF gender = "female" THEN 1200 ELSE 1500

\* if target_calories < min_calories: target_calories = min_calories
clamp_calories(target_calories, gender) ==
    IF RLt(target_calories, Int2Rat(min_calories(gender)))
    THEN Int2Rat(min_calories(gender))
    ELSE target_calories

\* a rate that ignores the activity level: what C26 must detect
protein_per_kg_by_goal(goal, activity_level) ==
    IF goal = "muscle_gain" THEN Rat(11, 5)
    ELSE IF goal \in {"recomp", "weight_loss"} THEN Int2Rat(2)
    ELSE Rat(9, 5)

\* protein_per_kg by goal (2.2 / 2.0 / 1.8), +0.2 for the two highest activity levels
protein_per_kg(goal, activity_level) ==
    LET by_goal == IF goal = "muscle_gain" THEN Rat(11, 5)
                   ELSE IF goal \in {"recomp", "weight_loss"} THEN Int2Rat(2)
                   ELSE Rat(9, 5)
    IN  IF activity_level \in {"very_active", "extremely_active"}
        THEN RAdd(by_goal, Rat(1, 5))
        ELSE by_goal

\* fat_percent by goal: 0.25 for weight_loss and muscle_gain, else 0.30
fat_fraction(goal) ==
    IF goal = "weight_loss" THEN Rat(1, 4)
    ELSE IF goal = "muscle_gain" THEN Rat(1, 4)
    ELSE Rat(3, 10)

\* fat_g after the 0.8 g/kg floor
fat_grams(target_calories, weight_kg, goal) ==
    LET fat_g     == RDiv(RMul(target_calories, fat_fraction(goal)), Int2Rat(9))
        min_fat_g == RMul(weight_kg, Rat(4, 5))
    IN  IF RLt(fat_g, min_fat_g) THEN min_fat_g ELSE fat_g

\* fat calories left as they were when the floor raised the grams: what C25
\* must detect
fat_calories_stale(target_calories, weight_kg, goal) ==
    RMul(target_calories, fat_fraction(goal))

\* fat_cal: target_calories * fat_percent, or fat_g * 9 when the floor applied
fat_calories(target_calories, weight_kg, goal) ==
    LET fat_cal   == RMul(target_calories, fat_fraction(goal))
        fat_g     == RDiv(fat_cal, Int2Rat(9))
        min_fat_g == RMul(weight_kg, Rat(4, 5))
    IN  IF RLt(fat_g, min_fat_g) THEN RMul(min_fat_g, Int2Rat(9)) ELSE fat_cal

\* a remainder that forgets the fat calories: what C9 must detect
carbs_calories_less_protein(target_calories, protein_cal, fat_cal) ==
    RSub(target_calories, protein_cal)

\* carbohydrates that take the whole calorie target: what C29 must detect
carbs_calories_whole(target_calories, protein_cal, fat_cal) == target_calories

\* carbs_cal = target_calories - protein_cal - fat_cal
carbs_calories(target_calories, protein_cal, fat_cal) ==
    RSub(RSub(target_calories, protein_cal), fat_cal)

\* a validation that never fires: what C8 must detect
macros_always_fit(carbs_g) == FALSE

\* the validation "if carbs_g < 0"
macros_do_not_fit(carbs_g) == RLt(carbs_g, Int2Rat(0))

\* percentages rounded to whole numbers: what C10 must detect
percent_of_whole(x_cal, target_calories) ==
    Int2Rat(RoundHalfEven(RMul(RDiv(x_cal, target_calories), Int2Rat(100))))

\* round((x_cal / target_calories) * 100, 1); target_calories # 0
percent_of(x_cal, target_calories) ==
    Round1(RMul(RDiv(x_cal, target_calories), Int2Rat(100)))

\* the dict calculate_macro_distribution returns, from its unrounded locals
macro_result(target_calories, protein_g, protein_cal, fat_g, fat_cal, carbs_cal) ==
    IF macros_do_not_fit(RDiv(carbs_cal, Int2Rat(4)))
    THEN [status        |-> "error",
          error_message |-> <<"Unable to fit macros within calorie target. Protein and fat requirements exceed total calories.">>]
    ELSE IF target_calories[1] = 0
    THEN \* ZeroDivisionError, caught by the except clause
         [status        |-> "error",
          error_message |-> <<"Error calculating macro distribution: ", "float division by zero">>]
    ELSE [status          |-> "success",
          protein_g       |-> Round1(protein_g),
          fat_g           |-> Round1(fat_g),
          carbs_g         |-> Round1(RDiv(carbs_cal, Int2Rat(4))),
          protein_cal     |-> Round1(protein_cal),
          fat_cal         |-> Round1(fat_cal),
          carbs_cal       |-> Round1(carbs_cal),
          protein_percent |-> percent_of(protein_cal, target_calories),
          fat_percent     |-> percent_of(fat_cal, target_calories),
          carbs_percent   |-> percent_of(carbs_cal, target_calories)]

\* carbs_cal = target_calories - protein_cal - fat_cal
macro_remainder(target_calories, protein_g, protein_cal, fat_g, fat_cal) ==
    macro_result(target_calories, protein_g, protein_cal, fat_g, fat_cal,
                 carbs_calories(target_calories, protein_cal, fat_cal))

\* protein_cal = protein_g * 4
macro_split(target_calories, protein_g, fat_g, fat_cal) ==
    macro_remainder(target_calories, protein_g, RMul(protein_g, Int2Rat(4)), fat_g, fat_cal)

\* protein first, then fat; the carbohydrates are the remainder
calculate_macro_distribution(target_calories, weight_kg, goal, activity_level) ==
    macro_split(target_calories,
                RMul(weight_kg, protein_per_kg(goal, activity_level)),
                fat_grams(target_calories, weight_kg, goal),
                fat_calories(target_calories, weight_kg, goal))

\* the note recorded with the calorie target
kbju_notes(unclamped, a) ==
    IF RLt(unclamped, Int2Rat(min_calories(a.gender)))
    THEN <<"Calories adjusted to safe minimum ({} kcal)", min_calories(a.gender)>>
    ELSE <<"Calculation based on {} goal at {} rate", a.goal, a.goal_rate>>

\* an error that keeps what was computed so far: what C11 must detect
kbju_result_partial(bmr, tdee, target_calories, macros, notes) ==
    IF macros.status = "error"
    THEN [status          |-> "error",
          error_message   |-> macros.error_message,
          bmr             |-> Round1(bmr),
          tdee            |-> Round1(tdee),
          target_calories |-> Round1(target_calories)]
    ELSE [status          |-> "success",
          bmr             |-> Round1(bmr),
          tdee            |-> Round1(tdee),
          target_calories |-> Round1(target_calories),
          protein_g       |-> macros.protein_g,
          fat_g           |-> macros.fat_g,
          carbs_g         |-> macros.carbs_g,
          protein_cal     |-> macros.protein_cal,
          fat_cal         |-> macros.fat_cal,
          carbs_cal       |-> macros.carbs_cal,
          protein_percent |-> macros.protein_percent,
          fat_percent     |-> macros.fat_percent,
          carbs_percent   |-> macros.carbs_percent,
          notes           |-> notes]

\* the dict calculate_kbju returns once the macros are computed
kbju_result(bmr, tdee, target_calories, macros, notes) ==
    IF macros.status = "error"
    THEN macros
    ELSE [status          |-> "success",
          bmr             |-> Round1(bmr),
          tdee            |-> Round1(tdee),
          target_calories |-> Round1(target_calories),
          protein_g       |-> macros.protein_g,
          fat_g           |-> macros.fat_g,
          carbs_g         |-> macros.carbs_g,
          protein_cal     |-> macros.protein_cal,
          fat_cal         |-> macros.fat_cal,
          carbs_cal       |-> macros.carbs_cal,
          protein_percent |-> macros.protein_percent,
          fat_percent     |-> macros.fat_percent,
          carbs_percent   |-> macros.carbs_percent,
          notes           |-> notes]

\* from the clamped calorie target on
kbju_from_target(a, bmr, tdee, unclamped, target_calories) ==
    kbju_result(bmr, tdee, target_calories,
                calculate_macro_distribution(target_calories, a.weight_kg,
                                             a.goal, a.activity_level),
                kbju_notes(unclamped, a))

\* target_calories = tdee + adjustment, raised to the floor
kbju_from_tdee(a, bmr, tdee, unclamped) ==
    kbju_from_target(a, bmr, tdee, unclamped, clamp_calories(unclamped, a.gender))

\* tdee = bmr * activity_multiplier
kbju_from_bmr(a, bmr, tdee) ==
    kbju_from_tdee(a, bmr, tdee, RAdd(tdee, Int2Rat(goal_adjustments[a.goal][a.goal_rate])))

\* the value calculate_kbju returns for the arguments a
kbju_return(a) ==
    IF RLe(a.weight_kg, Int2Rat(0)) \/ RLe(a.height_cm, Int2Rat(0)) \/ a.age <= 0
    THEN [status        |-> "error",
          error_message |-> <<"Weight, height, and age must be positive values">>]
    ELSE IF a.age < 18
    THEN [status        |-> "error",
          error_message |-> <<"This calculator is designed for adults 18+. Please consult a pediatric nutritionist.">>]
    ELSE IF adjustment_raises(a.goal, a.goal_rate)
    THEN [status        |-> "error",
          error_message |-> <<"Error calculating KBJU: ", missing_key(a.goal, a.goal_rate)>>]
    ELSE kbju_from_bmr(a, calculate_bmr(a.weight_kg, a.height_cm, a.age, a.gender),
                       RMul(calculate_bmr(a.weight_kg, a.height_cm, a.age, a.gender),
                            get_activity_multiplier(a.activity_level)))

\* a save that replaces the whole session state: what C14 must detect
save_kbju_only(result, st) ==
    IF result.status = "success"
    THEN [k \in {"kbju_calculation"} |-> result]
    ELSE st

\* a save that also stores an error result: what C28 must detect
save_kbju_always(result, st) ==
    [k \in DOMAIN st \cup {"kbju_calculation"} |->
        IF k = "kbju_calculation" THEN result ELSE st[k]]

\* a save that keeps an entry the session already holds: what C24 must detect
save_kbju_if_absent(result, st) ==
    IF result.status = "success" /\ "kbju_calculation" \notin DOMAIN st
    THEN [k \in DOMAIN st \cup {"kbju_calculation"} |->
             IF k = "kbju_calculation" THEN result ELSE st[k]]
    ELSE st

\* tool_context.state["kbju_calculation"] = result, on the success path only
save_kbju(result, st) ==
    IF result.status = "success"
    THEN [k \in DOMAIN st \cup {"kbju_calculation"} |->
             IF k = "kbju_calculation" THEN result ELSE st[k]]
    ELSE st

\* a call that answers from the session when it can: what C15 must detect
calculate_kbju_cached ==
    /\ pc = "called"
    /\ call.fn = "calculate_kbju"
    /\ ret' = IF "kbju_calculation" \in DOMAIN state
              THEN state["kbju_calculation"]
              ELSE kbju_return(call.args)
    /\ state' = save_kbju(ret', state)
    /\ locals' = None
    /\ pc' = "returned"
    /\ UNCHANGED <<call, log>>

\* the call calculate_kbju(tool_context, **call.args) runs to its return
calculate_kbju ==
    /\ pc = "called"
    /\ call.fn = "calculate_kbju"
    /\ ret' = kbju_return(call.args)
    /\ state' = save_kbju(ret', state)
    /\ locals' = None
    /\ pc' = "returned"
    /\ UNCHANGED <<call, log>>

(***************************************************************************)
(* Bounded inputs of calculate_kbju                                        *)
(***************************************************************************)
MaxWeightSteps == 3

MaxHeightSteps == 2

MaxAgeSteps == 1

\* kg: a non-positive one, a half-kilogram one, and 50, 100, ...
Weights == {Int2Rat(-5), Rat(121, 2)} \cup {Int2Rat(50 * i) : i \in 0..MaxWeightSteps}

\* cm: zero, and 150, 165, ... (odd values make 6.25*h a quarter)
Heights == {Int2Rat(0)} \cup {Int2Rat(150 + 15 * i) : i \in 0..MaxHeightSteps}

\* years: non-positive, minors, and 18, 48, ...
Ages == {0, 17} \cup {18 + 30 * i : i \in 0..MaxAgeSteps}

Genders == {"male", "female", "other"}

ActivityLevels == DOMAIN multipliers \cup {"couch"}

Goals == DOMAIN goal_adjustments \cup {"bulk"}

GoalRates == {"slow", "moderate", "aggressive", "extreme"}

KbjuArgs ==
    [weight_kg : Weights, height_cm : Heights, age : Ages, gender : Genders,
     activity_level : ActivityLevels, goal : Goals, goal_rate : GoalRates]

(***************************************************************************)
(* SpecCalculator: one call of calculate_kbju on a fresh session, for      *)
(* every bounded input                                                     *)
(***************************************************************************)
InitCalculator ==
    /\ pc = "called"
    /\ call \in [fn : {"calculate_kbju"}, args : KbjuArgs]
    /\ ret = None
    /\ locals = None
    /\ state = << >>
    /\ log = << >>

NextCalculator == calculate_kbju

SpecCalculator == InitCalculator /\ [][NextCalculator]_vars

(***************************************************************************)
(* Claims about calculate_kbju, checked under SpecCalculator               *)
(***************************************************************************)
KbjuReturned == pc = "returned" /\ call.fn = "calculate_kbju"

KbjuSuccess == KbjuReturned /\ ret.status = "success"

InfeasibleMessage ==
    <<"Unable to fit macros within calorie target. Protein and fat requirements exceed total calories.">>

\* weight and height positive, age >= 18, and goal and goal_rate in the adjustment table
KbjuInputsValid(a) ==
    /\ a.weight_kg[1] > 0
    /\ a.height_cm[1] > 0
    /\ a.age >= 18
    /\ a.goal \in {"weight_loss", "maintenance", "muscle_gain", "recomp"}
    /\ a.goal_rate \in {"slow", "moderate", "aggressive"}

\* tdee + adjustment, before the floor
Unclamped(a) ==
    RAdd(RMul(calculate_bmr(a.weight_kg, a.height_cm, a.age, a.gender),
              get_activity_multiplier(a.activity_level)),
         Int2Rat(goal_adjustments[a.goal][a.goal_rate]))

SexFloor(a) == IF a.gender = "female" THEN 1200 ELSE 1500

BelowFloor(a) == KbjuInputsValid(a) /\ RLt(Unclamped(a), Int2Rat(SexFloor(a)))

\* C7 as stated: whenever tdee + adjustment is below the sex-specific floor,
\* the call returns a result whose target_calories is exactly the floor.
C7_Original ==
    (KbjuReturned /\ BelowFloor(call.args))
        => /\ "target_calories" \in DOMAIN ret
           /\ ret.target_calories = Int2Rat(SexFloor(call.args))

\* C7 amended: whenever tdee + adjustment is below the sex-specific floor, the
\* call returns either the macros-cannot-fit error (no target_calories field)
\* or a success result whose target_calories is exactly the floor (1200 for
\* "female", 1500 for any other gender).
C7_FloorOrInfeasible ==
    (KbjuReturned /\ BelowFloor(call.args))
        => \/ /\ ret.status = "error"
              /\ ret.error_message = InfeasibleMessage
              /\ "target_calories" \notin DOMAIN ret
           \/ /\ ret.status = "success"
              /\ ret.target_calories = Int2Rat(SexFloor(call.args))

C7_Witness ==
    /\ KbjuSuccess
    /\ call.args.gender = "female"
    /\ BelowFloor(call.args)
    /\ ret.target_calories = Int2Rat(1200)

\* protein_cal + fat_cal (after the fat floor) and target_calories, from the arguments
TargetOf(a) == clamp_calories(Unclamped(a), a.gender)

ProteinFatCal(a) ==
    RAdd(RMul(RMul(a.weight_kg, protein_per_kg(a.goal, a.activity_level)), Int2Rat(4)),
         fat_calories(TargetOf(a), a.weight_kg, a.goal))

\* C8: no success result has a negative carbs_g or carbs_cal; whenever
\* protein_cal + fat_cal exceeds target_calories the call returns the
\* macros-cannot-fit error instead of a result with carbohydrates clamped.
C8_NoNegativeCarbs ==
    KbjuReturned =>
        /\ ret.status = "success" => (ret.carbs_g[1] >= 0 /\ ret.carbs_cal[1] >= 0)
        /\ (KbjuInputsValid(call.args)
            /\ RGt(ProteinFatCal(call.args), TargetOf(call.args)))
              => /\ ret.status = "error"
                 /\ ret.error_message = InfeasibleMessage
                 /\ "carbs_g" \notin DOMAIN ret

C8_Witness ==
    /\ KbjuReturned
    /\ KbjuInputsValid(call.args)
    /\ RGt(ProteinFatCal(call.args), TargetOf(call.args))
    /\ ret.status = "error"
    /\ ret.error_message = InfeasibleMessage

\* C9: in every success result the returned protein_cal + fat_cal + carbs_cal
\* differs from the returned target_calories by at most 1 kcal.
C9_MacroSum ==
    KbjuSuccess =>
        RLe(RAbs(RSub(RAdd(RAdd(ret.protein_cal, ret.fat_cal), ret.carbs_cal),
                      ret.target_calories)),
            Int2Rat(1))

\* a success result whose rounded parts do not add up exactly
C9_Witness ==
    /\ KbjuSuccess
    /\ RAdd(RAdd(ret.protein_cal, ret.fat_cal), ret.carbs_cal) # ret.target_calories

PercentSum == RAdd(RAdd(ret.protein_percent, ret.fat_percent), ret.carbs_percent)

\* the share of target_calories, in percent, that the returned calories make
ShareOf(x_cal) == RMul(RDiv(x_cal, ret.target_calories), Int2Rat(100))

\* C10: in every success result the three percentages add up to 100 within
\* 0.2, and each is its macro's share of target_calories, to one decimal.
C10_PercentSum ==
    KbjuSuccess =>
        /\ RLe(RAbs(RSub(PercentSum, Int2Rat(100))), Rat(1, 5))
        /\ \A f \in {"protein", "fat", "carbs"} :
              LET pct == IF f = "protein" THEN ret.protein_percent
                         ELSE IF f = "fat" THEN ret.fat_percent ELSE ret.carbs_percent
                  cal == IF f = "protein" THEN ret.protein_cal
                         ELSE IF f = "fat" THEN ret.fat_cal ELSE ret.carbs_cal
              IN  /\ pct[2] \in {1, 2, 5, 10}
                  /\ RLe(RAbs(RSub(pct, ShareOf(cal))), Rat(1, 10))

\* a success result whose rounded percentages do not add up to exactly 100
C10_Witness == KbjuSuccess /\ PercentSum # Int2Rat(100)

InvalidInputMessage == <<"Weight, height, and age must be positive values">>

AgeRestrictionMessage ==
    <<"This calculator is designed for adults 18+. Please consult a pediatric nutritionist.">>

\* weight, height or age is zero or negative
NonPositive(a) == a.weight_kg[1] <= 0 \/ a.height_cm[1] <= 0 \/ a.age <= 0

\* the fields of a success result that carry computed values
ComputedFields ==
    {"bmr", "tdee", "target_calories", "protein_g", "fat_g", "carbs_g",
     "protein_cal", "fat_cal", "carbs_cal", "protein_percent", "fat_percent",
     "carbs_percent", "notes"}

\* C11: calculate_kbju returns one of three distinguishable errors: the
\* invalid-input one when weight, height or age is non-positive, the
\* age-restriction one when all are positive and age is below 18, the
\* infeasible-macros one when the inputs are valid and protein and fat
\* calories exceed the target; an error result has a status and a message and
\* none of the bmr/tdee/target_calories/macro fields.
C11_ErrorOutcomes ==
    KbjuReturned =>
        /\ ret.status \in {"success", "error"}
        /\ NonPositive(call.args)
              => ret = [status |-> "error", error_message |-> InvalidInputMessage]
        /\ (~NonPositive(call.args) /\ call.args.age < 18)
              => ret = [status |-> "error", error_message |-> AgeRestrictionMessage]
        /\ (KbjuInputsValid(call.args)
            /\ RGt(ProteinFatCal(call.args), TargetOf(call.args)))
              => ret = [status |-> "error", error_message |-> InfeasibleMessage]
        /\ ret.status = "error" => DOMAIN ret \cap ComputedFields = {}
        /\ ret.status = "success" => ComputedFields \subseteq DOMAIN ret
        /\ Cardinality({InvalidInputMessage, AgeRestrictionMessage, InfeasibleMessage}) = 3

\* a minor with a positive weight and height is turned away
C11_Witness ==
    /\ KbjuReturned
    /\ call.args.age = 17
    /\ ~NonPositive(call.args)
    /\ ret.status = "error"
    /\ ret.error_message = AgeRestrictionMessage

TableGoals == {"weight_loss", "maintenance", "muscle_gain", "recomp"}

TableRates == {"slow", "moderate", "aggressive"}

\* the inputs pass both input checks and the table lookup then fails
LookupFault(a) ==
    /\ ~NonPositive(a)
    /\ a.age >= 18
    /\ a.goal \notin TableGoals \/ a.goal_rate \notin TableRates

\* C13 as stated: a goal or goal_rate missing from the goal-adjustment table
\* produces a failure signal distinct from the structured status values, not
\* a status "error" result of the same shape as the invalid-input error.
C13_Original ==
    (KbjuReturned /\ LookupFault(call.args))
        => ~(ret.status = "error" /\ DOMAIN ret = {"status", "error_message"})

\* C13 amended: a goal or goal_rate missing from the goal-adjustment table is
\* caught inside calculate_kbju and returned as an ordinary status "error"
\* result with exactly the fields status and error_message, told apart from
\* the other errors only by its text: "Error calculating KBJU: " followed by
\* the first missing key; nothing is saved to the session.
C13_FaultIsErrorResult ==
    (KbjuReturned /\ LookupFault(call.args))
        => /\ ret.status = "error"
           /\ DOMAIN ret = {"status", "error_message"}
           /\ ret.error_message =
                 <<"Error calculating KBJU: ",
                   IF call.args.goal \notin TableGoals THEN call.args.goal
                   ELSE call.args.goal_rate>>
           /\ ret.error_message \notin
                 {InvalidInputMessage, AgeRestrictionMessage, InfeasibleMessage}
           /\ state = << >>

\* a goal of the table with a rate that is not in it
C13_Witness ==
    /\ KbjuReturned
    /\ LookupFault(call.args)
    /\ call.args.goal = "weight_loss"
    /\ ret.error_message = <<"Error calculating KBJU: ", "extreme">>

\* 1.2, 1.375, 1.55, 1.725, 1.9 by level, 1.2 for any other value
ExpectedMultiplier(level) ==
    IF level = "lightly_active" THEN Rat(1375, 1000)
    ELSE IF level = "moderately_active" THEN Rat(155, 100)
    ELSE IF level = "very_active" THEN Rat(1725, 1000)
    ELSE IF level = "extremely_active" THEN Rat(19, 10)
    ELSE Rat(12, 10)

\* the call's arguments with the activity level replaced by "sedentary"
AsSedentary(a) == [a EXCEPT !.activity_level = "sedentary"]

\* C23: the multiplier is 1.2, 1.375, 1.55, 1.725, 1.9 for the five levels
\* and 1.2 for any other value, so tdee is bmr times that number, and a call
\* with an unknown level returns the status, bmr, tdee and target_calories of
\* the same call with "sedentary".
C23_ActivityMultiplier ==
    KbjuReturned =>
        /\ ret.status = "success"
              => ret.tdee = Round1(RMul(calculate_bmr(call.args.weight_kg, call.args.height_cm,
                                                      call.args.age, call.args.gender),
                                        ExpectedMultiplier(call.args.activity_level)))
        /\ call.args.activity_level \notin
              {"sedentary", "lightly_active", "moderately_active", "very_active", "extremely_active"}
              => /\ ret.status = kbju_return(AsSedentary(call.args)).status
                 /\ ret.status = "success"
                       => /\ ret.bmr = kbju_return(AsSedentary(call.args)).bmr
                          /\ ret.tdee = kbju_return(AsSedentary(call.args)).tdee
                          /\ ret.target_calories =
                                kbju_return(AsSedentary(call.args)).target_calories

\* an unknown activity level and a successful result
C23_Witness ==
    /\ KbjuSuccess
    /\ call.args.activity_level = "couch"
    /\ RGt(ret.tdee, ret.bmr)

\* the goal's share of the calories that goes to fat
FatShare(goal) == IF goal \in {"weight_loss", "muscle_gain"} THEN Rat(25, 100) ELSE Rat(30, 100)

\* 0.8 g of fat per kg of body weight
FatFloor(a) == RMul(Rat(8, 10), a.weight_kg)

\* the share of the calorie target divided by 9, raised to the floor when lower
ExpectedFat(a) ==
    IF RLt(RDiv(RMul(TargetOf(a), FatShare(a.goal)), Int2Rat(9)), FatFloor(a))
    THEN FatFloor(a)
    ELSE RDiv(RMul(TargetOf(a), FatShare(a.goal)), Int2Rat(9))

\* C25: in every success result protein, fat and carbohydrates (grams and
\* calories) are non-negative; fat_g is the goal's share of target_calories
\* (25 % for weight_loss and muscle_gain, 30 % otherwise) divided by 9, raised
\* to 0.8 * weight_kg when lower, so never below that floor after rounding;
\* fat_cal is 9 times the fat grams, floor included, and the carbohydrates
\* are what remains of target_calories after protein and that fat_cal.
C25_FatFloor ==
    KbjuSuccess =>
        /\ \A x \in {ret.protein_g, ret.fat_g, ret.carbs_g,
                     ret.protein_cal, ret.fat_cal, ret.carbs_cal} : x[1] >= 0
        /\ ret.fat_g = Round1(ExpectedFat(call.args))
        /\ RLe(Round1(FatFloor(call.args)), ret.fat_g)
        /\ ret.fat_cal = Round1(RMul(ExpectedFat(call.args), Int2Rat(9)))
        /\ ret.carbs_cal =
              Round1(RSub(RSub(TargetOf(call.args),
                               RMul(RMul(call.args.weight_kg,
                                         protein_per_kg(call.args.goal, call.args.activity_level)),
                                    Int2Rat(4))),
                          RMul(ExpectedFat(call.args), Int2Rat(9))))

\* a success result whose fat was raised to the floor
C25_Witness ==
    /\ KbjuSuccess
    /\ ExpectedFat(call.args) = FatFloor(call.args)
    /\ RLt(RDiv(RMul(TargetOf(call.args), FatShare(call.args.goal)), Int2Rat(9)),
           FatFloor(call.args))
    /\ ret.fat_g = Round1(FatFloor(call.args))

\* grams of protein per kg: 2.2, 2.0 or 1.8 by goal, plus 0.2 for the two
\* highest activity levels
ExpectedProteinRate(a) ==
    RAdd(IF a.goal = "muscle_gain" THEN Rat(22, 10)
         ELSE IF a.goal \in {"recomp", "weight_loss"} THEN Rat(20, 10)
         ELSE Rat(18, 10),
         IF a.activity_level \in {"very_active", "extremely_active"}
         THEN Rat(2, 10) ELSE Int2Rat(0))

\* C26: in every success result protein_g is weight_kg times the goal's rate
\* (2.2 muscle_gain, 2.0 recomp and weight_loss, 1.8 maintenance) plus 0.2
\* g/kg for very_active and extremely_active, whatever target_calories is,
\* and protein_cal is 4 times that amount.
C26_ProteinByWeight ==
    KbjuSuccess =>
        /\ ret.protein_g = Round1(RMul(call.args.weight_kg, ExpectedProteinRate(call.args)))
        /\ ret.protein_cal =
              Round1(RMul(Int2Rat(4), RMul(call.args.weight_kg, ExpectedProteinRate(call.args))))

\* an extremely active muscle gainer: 2.4 g/kg
C26_Witness ==
    /\ KbjuSuccess
    /\ call.args.goal = "muscle_gain"
    /\ call.args.activity_level = "extremely_active"
    /\ ret.protein_g = Round1(RMul(call.args.weight_kg, Rat(24, 10)))

\* 10*weight + 6.25*height - 5*age + 5 for "male", - 161 for any other gender
MifflinStJeor(weight_kg, height_cm, age, gender) ==
    RAdd(RAdd(RAdd(RMul(Int2Rat(10), weight_kg), RMul(Rat(625, 100), height_cm)),
              Int2Rat(-5 * age)),
         Int2Rat(IF gender = "male" THEN 5 ELSE -161))

\* C27: calculate_bmr is 10*weight_kg + 6.25*height_cm - 5*age + 5 for
\* "male" and the same with - 161 for any other gender; a heavier body of the
\* same height, age and gender, and a taller one of the same weight, age and
\* gender, has a strictly larger value; a success result reports it rounded.
C27_BmrFormula ==
    KbjuReturned =>
        /\ calculate_bmr(call.args.weight_kg, call.args.height_cm, call.args.age, call.args.gender)
              = MifflinStJeor(call.args.weight_kg, call.args.height_cm,
                              call.args.age, call.args.gender)
        /\ \A w \in Weights :
              RGt(w, call.args.weight_kg)
                 => RGt(calculate_bmr(w, call.args.height_cm, call.args.age, call.args.gender),
                        calculate_bmr(call.args.weight_kg, call.args.height_cm,
                                      call.args.age, call.args.gender))
        /\ \A h \in Heights :
              RGt(h, call.args.height_cm)
                 => RGt(calculate_bmr(call.args.weight_kg, h, call.args.age, call.args.gender),
                        calculate_bmr(call.args.weight_kg, call.args.height_cm,
                                      call.args.age, call.args.gender))
        /\ ret.status = "success"
              => ret.bmr = Round1(MifflinStJeor(call.args.weight_kg, call.args.height_cm,
                                                call.args.age, call.args.gender))

\* a success result for a gender that is neither "male" nor "female"
C27_Witness ==
    /\ KbjuSuccess
    /\ call.args.gender = "other"
    /\ ret.bmr = Round1(MifflinStJeor(call.args.weight_kg, call.args.height_cm,
                                      call.args.age, "female"))

(***************************************************************************)
(* Python strings as sequences of one-character strings                    *)
(***************************************************************************)
UpperCase == <<"A", "B", "C", "D", "E", "F", "G", "H", "I", "J", "K", "L", "M">>
             \o <<"N", "O", "P", "Q", "R", "S", "T", "U", "V", "W", "X", "Y", "Z">>

LowerCase == <<"a", "b", "c", "d", "e", "f", "g", "h", "i", "j", "k", "l", "m">>
             \o <<"n", "o", "p", "q", "r", "s", "t", "u", "v", "w", "x", "y", "z">>

\* the lower-case letter of each upper-case letter
LowerOf == [c \in {UpperCase[i] : i \in 1..Len(UpperCase)} |->
               LowerCase[CHOOSE i \in 1..Len(UpperCase) : UpperCase[i] = c]]

\* str.lower() on one (ASCII) character
lower_char(c) == IF c \in DOMAIN LowerOf THEN LowerOf[c] ELSE c

\* a lower() that leaves the string as it is: what C2 must detect
lower_identity(s) == s

\* str.lower()
lower(s) == [i \in 1..Len(s) |-> lower_char(s[i])]

\* [x.lower() for x in (lst or [])]
lower_all(lst) == [i \in 1..Len(lst) |-> lower(lst[i])]

\* the substring test "sub in s"
contains(s, sub) ==
    \E i \in 0..(Len(s) - Len(sub)) : SubSeq(s, i + 1, i + Len(sub)) = sub

\* the membership test "x in lst"
list_has(lst, x) == \E i \in 1..Len(lst) : lst[i] = x

\* any(kw in f for kw in keywords)
any_keyword_in(f, keywords) ==
    \E i \in 1..Len(keywords) : contains(f, keywords[i])

\* [f for f in favorite_foods if any(kw in f for kw in keywords)]
conflicting(favorite_foods, keywords) ==
    SelectSeq(favorite_foods, LAMBDA f : any_keyword_in(f, keywords))

\* sep.join(parts), as the sequence of its pieces
RECURSIVE join(_, _)
join(sep, parts) ==
    IF Len(parts) = 0 THEN << >>
    ELSE IF Len(parts) = 1 THEN <<parts[1]>>
    ELSE <<parts[1], sep>> \o join(sep, Tail(parts))

\* a slice that keeps the whole list: what C17 must detect
first_n_all(lst, n) == lst

\* lst[:n]
first_n(lst, n) == SubSeq(lst, 1, IF Len(lst) < n THEN Len(lst) ELSE n)

(***************************************************************************)
(* validation_tool.py: the keyword lists                                   *)
(***************************************************************************)
MEAT_FOODS ==
    <<<<"b", "e", "e", "f">>,
      <<"p", "o", "r", "k">>,
      <<"c", "h", "i", "c", "k", "e", "n">>,
      <<"t", "u", "r", "k", "e", "y">>,
      <<"l", "a", "m", "b">>,
      <<"d", "u", "c", "k">>,
      <<"v", "e", "n", "i", "s", "o", "n">>,
      <<"m", "e", "a", "t">>>>

\* the literal list added to MEAT_FOODS
NON_MEAT_ANIMAL_PRODUCTS ==
    <<<<"e", "g", "g", "s">>,
      <<"d", "a", "i", "r", "y">>,
      <<"m", "i", "l", "k">>,
      <<"c", "h", "e", "e", "s", "e">>,
      <<"y", "o", "g", "u", "r", "t">>,
      <<"b", "u", "t", "t", "e", "r">>,
      <<"h", "o", "n", "e", "y">>>>

\* a list without the meats: what C3 must detect
ANIMAL_PRODUCTS_without_meat == NON_MEAT_ANIMAL_PRODUCTS

\* MEAT_FOODS + ["eggs", ...]
ANIMAL_PRODUCTS == MEAT_FOODS \o NON_MEAT_ANIMAL_PRODUCTS

SEAFOOD ==
    <<<<"f", "i", "s", "h">>,
      <<"s", "a", "l", "m", "o", "n">>,
      <<"t", "u", "n", "a">>,
      <<"s", "h", "r", "i", "m", "p">>,
      <<"s", "h", "e", "l", "l", "f", "i", "s", "h">>,
      <<"l", "o", "b", "s", "t", "e", "r">>,
      <<"c", "r", "a", "b">>,
      <<"s", "e", "a", "f", "o", "o", "d">>>>

GLUTEN_FOODS ==
    <<<<"w", "h", "e", "a", "t">>,
      <<"b", "r", "e", "a", "d">>,
      <<"p", "a", "s", "t", "a">>,
      <<"f", "l", "o", "u", "r">>,
      <<"b", "a", "r", "l", "e", "y">>,
      <<"r", "y", "e">>,
      <<"g", "l", "u", "t", "e", "n">>>>

DAIRY_FOODS ==
    <<<<"m", "i", "l", "k">>,
      <<"c", "h", "e", "e", "s", "e">>,
      <<"y", "o", "g", "u", "r", "t">>,
      <<"b", "u", "t", "t", "e", "r">>,
      <<"c", "r", "e", "a", "m">>,
      <<"d", "a", "i", "r", "y">>>>

\* the restriction names the rules test for
vegetarian == <<"v", "e", "g", "e", "t", "a", "r", "i", "a", "n">>

vegan == <<"v", "e", "g", "a", "n">>

gluten_free == <<"g", "l", "u", "t", "e", "n", "_", "f", "r", "e", "e">>

gluten_free_hyphen == <<"g", "l", "u", "t", "e", "n", "-", "f", "r", "e", "e">>

lactose_intolerant == <<"l", "a", "c", "t", "o", "s", "e", "_", "i", "n", "t", "o", "l", "e", "r", "a", "n", "t">>

dairy_free == <<"d", "a", "i", "r", "y", "_", "f", "r", "e", "e">>

(***************************************************************************)
(* validation_tool.py: validate_consultation_data                          *)
(*                                                                         *)
(* A finding is the dict [type, severity, issue, resolution].  A formatted *)
(* text (an f-string, a join) is the sequence of its pieces: the literal   *)
(* parts as they stand, an interpolated phrase as its character sequence,  *)
(* an interpolated number as the number the format shows.                  *)
(***************************************************************************)
\* Python truth of an optional number: neither None nor zero
truthy(x) == x # None /\ x[1][1] # 0

\* Python truth of an optional string: neither None nor empty
truthy_str(x) == x # None /\ x[1] # ""

\* "lst or []"
or_empty(lst) == IF lst = None THEN << >> ELSE lst

is_vegetarian(dietary_restrictions) == list_has(dietary_restrictions, vegetarian)

is_vegan(dietary_restrictions) == list_has(dietary_restrictions, vegan)

\* rule 1a: vegetarian with meat among the favorites
vegetarian_errors(dietary_restrictions, favorite_foods) ==
    LET conflicting_favorites == conflicting(favorite_foods, MEAT_FOODS)
    IN  IF is_vegetarian(dietary_restrictions) /\ conflicting_favorites # << >>
        THEN <<[type       |-> "dietary_contradiction",
                severity   |-> "high",
                issue      |-> <<"User is vegetarian but lists meat as favorites: ">>
                               \o join(", ", conflicting_favorites),
                resolution |-> <<"Ask user to clarify: Do you want vegetarian recipes, or would you like to include meat?">>]>>
        ELSE << >>

\* rule 1b: vegetarian with seafood among the favorites: the pescatarian hint
vegetarian_suggestions(dietary_restrictions, favorite_foods) ==
    LET seafood_favorites == conflicting(favorite_foods, SEAFOOD)
    IN  IF is_vegetarian(dietary_restrictions) /\ seafood_favorites # << >>
        THEN <<<<"User likes seafood (">> \o join(", ", seafood_favorites)
               \o <<") - consider asking if they're pescatarian instead of vegetarian">>>>
        ELSE << >>

\* a vegan rule that is skipped once the user is vegetarian: what C30 must detect
vegan_errors_unless_vegetarian(dietary_restrictions, favorite_foods) ==
    IF /\ is_vegan(dietary_restrictions)
       /\ ~is_vegetarian(dietary_restrictions)
       /\ conflicting(favorite_foods, ANIMAL_PRODUCTS) # << >>
    THEN <<[type       |-> "dietary_contradiction",
            severity   |-> "critical",
            issue      |-> <<"User is vegan but lists animal products as favorites: ">>
                           \o join(", ", conflicting(favorite_foods, ANIMAL_PRODUCTS)),
            resolution |-> <<"Ask user: Do you want strictly vegan recipes, or are you flexible with some animal products?">>]>>
    ELSE << >>

\* rule 1c: vegan with animal products among the favorites
vegan_errors(dietary_restrictions, favorite_foods) ==
    LET conflicting_favorites == conflicting(favorite_foods, ANIMAL_PRODUCTS)
    IN  IF is_vegan(dietary_restrictions) /\ conflicting_favorites # << >>
        THEN <<[type       |-> "dietary_contradiction",
                severity   |-> "critical",
                issue      |-> <<"User is vegan but lists animal products as favorites: ">>
                               \o join(", ", conflicting_favorites),
                resolution |-> <<"Ask user: Do you want strictly vegan recipes, or are you flexible with some animal products?">>]>>
        ELSE << >>

\* rule 1d: vegan without vegetarian
vegan_suggestions(dietary_restrictions) ==
    IF is_vegan(dietary_restrictions) /\ ~is_vegetarian(dietary_restrictions)
    THEN <<<<"User is vegan - automatically including vegetarian as well since vegan is more restrictive">>>>
    ELSE << >>

\* a rule that knows the underscore spelling only: what C22 must detect
gluten_warnings_underscore(dietary_restrictions, favorite_foods) ==
    IF /\ list_has(dietary_restrictions, gluten_free)
       /\ conflicting(favorite_foods, GLUTEN_FOODS) # << >>
    THEN <<[type       |-> "dietary_warning",
            severity   |-> "medium",
            issue      |-> <<"User is gluten-free but lists gluten-containing foods as favorites: ">>
                           \o join(", ", conflicting(favorite_foods, GLUTEN_FOODS)),
            resolution |-> <<"Offer gluten-free alternatives to their favorite foods">>]>>
    ELSE << >>

\* rule 1e: gluten-free (either spelling) with gluten among the favorites
gluten_warnings(dietary_restrictions, favorite_foods) ==
    LET conflicting_favorites == conflicting(favorite_foods, GLUTEN_FOODS)
    IN  IF /\ \/ list_has(dietary_restrictions, gluten_free)
              \/ list_has(dietary_restrictions, gluten_free_hyphen)
           /\ conflicting_favorites # << >>
        THEN <<[type       |-> "dietary_warning",
                severity   |-> "medium",
                issue      |-> <<"User is gluten-free but lists gluten-containing foods as favorites: ">>
                               \o join(", ", conflicting_favorites),
                resolution |-> <<"Offer gluten-free alternatives to their favorite foods">>]>>
        ELSE << >>

\* rule 1f: lactose intolerant or dairy-free with dairy among the favorites
dairy_warnings(dietary_restrictions, favorite_foods) ==
    LET conflicting_favorites == conflicting(favorite_foods, DAIRY_FOODS)
    IN  IF /\ \/ list_has(dietary_restrictions, lactose_intolerant)
              \/ list_has(dietary_restrictions, dairy_free)
           /\ conflicting_favorites # << >>
        THEN <<[type       |-> "dietary_warning",
                severity   |-> "medium",
                issue      |-> <<"User is lactose intolerant/dairy-free but lists dairy as favorites: ">>
                               \o join(", ", conflicting_favorites),
                resolution |-> <<"Suggest lactose-free or dairy-free alternatives">>]>>
        ELSE << >>

\* the guard of section 2:
\* "if target_calories and target_protein_g and target_fat_g and target_carbs_g"
macro_targets_present(a) ==
    /\ truthy(a.target_calories)
    /\ truthy(a.target_protein_g)
    /\ truthy(a.target_fat_g)
    /\ truthy(a.target_carbs_g)

\* total_macro_cal = protein*4 + fat*9 + carbs*4
total_macro_cal(a) ==
    RAdd(RAdd(RMul(a.target_protein_g[1], Int2Rat(4)),
              RMul(a.target_fat_g[1], Int2Rat(9))),
         RMul(a.target_carbs_g[1], Int2Rat(4)))

\* rule 2: macro calories off the calorie target by more than 10 %
macro_errors(a) ==
    IF macro_targets_present(a)
    THEN LET calorie_difference == RAbs(RSub(total_macro_cal(a), a.target_calories[1]))
         IN  IF RGt(calorie_difference, RMul(a.target_calories[1], Rat(1, 10)))
             THEN <<[type       |-> "macro_mismatch",
                     severity   |-> "high",
                     issue      |-> <<"Macro calories (", RoundHalfEven(total_macro_cal(a)),
                                      ") don't match target calories (",
                                      RoundHalfEven(a.target_calories[1]), ")">>,
                     resolution |-> <<"Adjust macros to match calorie target. Difference: ",
                                      RoundHalfEven(calorie_difference), " calories">>]>>
             ELSE << >>
    ELSE << >>

\* a protein check that does not wait for the four targets: what C6 must detect
protein_check_without_targets(a) == truthy(a.target_protein_g) /\ truthy(a.weight_kg)

\* the guard of rule 3: inside section 2, "if weight_kg"
protein_check_applies(a) == macro_targets_present(a) /\ truthy(a.weight_kg)

\* rule 3: protein per kg below 0.8 or above 3.0
protein_warnings(a) ==
    IF protein_check_applies(a)
    THEN LET protein_per_kg_target == RDiv(a.target_protein_g[1], a.weight_kg[1])
         IN  IF RLt(protein_per_kg_target, Rat(4, 5))
             THEN <<[type       |-> "low_protein",
                     severity   |-> "medium",
                     issue      |-> <<"Protein target is very low (", Round1(protein_per_kg_target),
                                      "g/kg). Minimum recommended: 0.8g/kg">>,
                     resolution |-> <<"Consider increasing protein to at least 0.8g per kg body weight">>]>>
             ELSE IF RGt(protein_per_kg_target, Int2Rat(3))
             THEN <<[type       |-> "high_protein",
                     severity   |-> "medium",
                     issue      |-> <<"Protein target is very high (", Round1(protein_per_kg_target),
                                      "g/kg). Typical range: 1.6-2.5g/kg">>,
                     resolution |-> <<"Verify this protein level is intentional and safe for the user">>]>>
             ELSE << >>
    ELSE << >>

\* rule 4: vegan or vegetarian with more than 150 g of protein
difficult_warnings(a, dietary_restrictions) ==
    IF /\ macro_targets_present(a)
       /\ is_vegan(dietary_restrictions) \/ is_vegetarian(dietary_restrictions)
       /\ RGt(a.target_protein_g[1], Int2Rat(150))
    THEN <<[type       |-> "difficult_target",
            severity   |-> "medium",
            issue      |-> <<"Very high protein target (", a.target_protein_g[1],
                             "g) with vegan/vegetarian diet may be challenging">>,
            resolution |-> <<"May need protein supplements or extensive legume/tofu consumption">>]>>
    ELSE << >>

\* the guard of section 3: "if goal and target_calories and weight_kg"
goal_check_applies(a) ==
    truthy_str(a.goal) /\ truthy(a.target_calories) /\ truthy(a.weight_kg)

\* rule 5: calories implausible for the goal
goal_warnings(a) ==
    IF ~goal_check_applies(a) THEN << >>
    ELSE IF a.goal[1] = "weight_loss"
    THEN IF RGt(a.target_calories[1], RMul(a.weight_kg[1], Int2Rat(30)))
         THEN <<[type       |-> "goal_mismatch",
                 severity   |-> "low",
                 issue      |-> <<"Weight loss goal but calories (", a.target_calories[1],
                                  ") seem high for weight (", a.weight_kg[1], "kg)">>,
                 resolution |-> <<"Verify the calorie target matches the weight loss goal">>]>>
         ELSE << >>
    ELSE IF a.goal[1] = "muscle_gain"
    THEN IF RLt(a.target_calories[1], RMul(a.weight_kg[1], Int2Rat(25)))
         THEN <<[type       |-> "goal_mismatch",
                 severity   |-> "low",
                 issue      |-> <<"Muscle gain goal but calories (", a.target_calories[1],
                                  ") may be too low">>,
                 resolution |-> <<"Consider increasing calories for muscle growth">>]>>
         ELSE << >>
    ELSE << >>

\* thresholds that must be exceeded, not reached: what C21 must detect
volume_warnings_exceeding(dietary_restrictions, foods_to_avoid) ==
    (IF Len(dietary_restrictions) > 4
     THEN <<[type       |-> "too_restrictive",
             severity   |-> "medium",
             issue      |-> <<"User has many dietary restrictions (", Len(dietary_restrictions),
                              ") which may limit recipe variety">>,
             resolution |-> <<"Consider prioritizing the most important restrictions if recipe options are limited">>]>>
     ELSE << >>)
    \o
    (IF Len(foods_to_avoid) > 10
     THEN <<[type       |-> "too_many_avoided_foods",
             severity   |-> "medium",
             issue      |-> <<"User avoids many foods (", Len(foods_to_avoid),
                              ") which may make meal planning difficult">>,
             resolution |-> <<"Focus on core allergens/dislikes; consider if all are strictly necessary">>]>>
     ELSE << >>)

\* rule 6: too many restrictions, too many avoided foods
volume_warnings(dietary_restrictions, foods_to_avoid) ==
    LET restriction_count == Len(dietary_restrictions)
        avoid_count       == Len(foods_to_avoid)
    IN  (IF restriction_count >= 4
         THEN <<[type       |-> "too_restrictive",
                 severity   |-> "medium",
                 issue      |-> <<"User has many dietary restrictions (", restriction_count,
                                  ") which may limit recipe variety">>,
                 resolution |-> <<"Consider prioritizing the most important restrictions if recipe options are limited">>]>>
         ELSE << >>)
        \o
        (IF avoid_count >= 10
         THEN <<[type       |-> "too_many_avoided_foods",
                 severity   |-> "medium",
                 issue      |-> <<"User avoids many foods (", avoid_count,
                                  ") which may make meal planning difficult">>,
                 resolution |-> <<"Focus on core allergens/dislikes; consider if all are strictly necessary">>]>>
         ELSE << >>)

\* the three lists when the rules have run, in the order the code appends
findings(a) ==
    LET dietary_restrictions == lower_all(or_empty(a.dietary_restrictions))
        foods_to_avoid       == lower_all(or_empty(a.foods_to_avoid))
        favorite_foods       == lower_all(or_empty(a.favorite_foods))
    IN  [errors      |-> vegetarian_errors(dietary_restrictions, favorite_foods)
                         \o vegan_errors(dietary_restrictions, favorite_foods)
                         \o macro_errors(a),
         warnings    |-> gluten_warnings(dietary_restrictions, favorite_foods)
                         \o dairy_warnings(dietary_restrictions, favorite_foods)
                         \o protein_warnings(a)
                         \o difficult_warnings(a, dietary_restrictions)
                         \o goal_warnings(a)
                         \o volume_warnings(dietary_restrictions, foods_to_avoid),
         suggestions |-> vegetarian_suggestions(dietary_restrictions, favorite_foods)
                         \o vegan_suggestions(dietary_restrictions)]

\* [f[field] for f in lst]
field_of(lst, field) == [i \in 1..Len(lst) |-> lst[i][field]]

\* the dict returned when errors is not empty
error_result(errors) ==
    [status               |-> "error",
     valid                |-> FALSE,
     errors               |-> errors,
     error_count          |-> Len(errors),
     suggested_resolution |-> join(" OR ", first_n(field_of(errors, "resolution"), 2)),
     message              |-> <<"Found ", Len(errors), " critical contradiction(s): ">>
                              \o join("; ", first_n(field_of(errors, "issue"), 2))]

\* a result that never carries the suggestions: what C16 must detect
with_suggestions_dropped(result, suggestions) == result

\* result["suggestions"] = suggestions, only when there are some
with_suggestions(result, suggestions) ==
    IF suggestions # << >>
    THEN [k \in DOMAIN result \cup {"suggestions"} |->
             IF k = "suggestions" THEN suggestions ELSE result[k]]
    ELSE result

\* the dict returned when there are warnings and no errors
warning_result(warnings, suggestions) ==
    with_suggestions(
        [status        |-> "warning",
         valid         |-> TRUE,
         warnings      |-> warnings,
         warning_count |-> Len(warnings),
         message       |-> <<"Found ", Len(warnings), " potential issue(s) that should be reviewed">>],
        suggestions)

\* an all-clear without its summary: what C12 must detect
success_result_silent(suggestions) ==
    with_suggestions([status |-> "success", valid |-> TRUE], suggestions)

\* the dict returned when there are neither errors nor warnings
success_result(suggestions) ==
    with_suggestions(
        [status  |-> "success",
         valid   |-> TRUE,
         message |-> <<"All data is consistent - no contradictions found">>],
        suggestions)

\* an aggregation that looks at the warnings first: what C1 must detect
compile_results_warnings_first(errors, warnings, suggestions) ==
    IF warnings # << >> THEN warning_result(warnings, suggestions)
    ELSE IF errors # << >> THEN error_result(errors)
    ELSE success_result(suggestions)

\* an aggregation that counts a suggestion as a warning: what C4 must detect
compile_results_hints_warn(errors, warnings, suggestions) ==
    IF errors # << >> THEN error_result(errors)
    ELSE IF warnings # << >> \/ suggestions # << >>
    THEN warning_result(warnings, suggestions)
    ELSE success_result(suggestions)

\* COMPILE RESULTS: errors, else warnings, else all clear
compile_results(errors, warnings, suggestions) ==
    IF errors # << >> THEN error_result(errors)
    ELSE IF warnings # << >> THEN warning_result(warnings, suggestions)
    ELSE success_result(suggestions)

\* the call validate_consultation_data(**call.args) runs to its return
validate_consultation_data ==
    /\ pc = "called"
    /\ call.fn = "validate_consultation_data"
    /\ LET found == findings(call.args)
       IN  /\ locals' = found
           /\ ret' = compile_results(found.errors, found.warnings, found.suggestions)
    /\ pc' = "returned"
    /\ UNCHANGED <<call, state, log>>

(***************************************************************************)
(* Bounded inputs of validate_consultation_data                            *)
(***************************************************************************)
MaxRestrictions == 2

MaxFavorites == 2

\* restriction names as a caller may spell them; "keto" is known to no rule
RestrictionVocab ==
    <<<<"V", "e", "g", "e", "t", "a", "r", "i", "a", "n">>,
      <<"V", "E", "G", "A", "N">>,
      <<"g", "l", "u", "t", "e", "n", "_", "f", "r", "e", "e">>,
      <<"g", "l", "u", "t", "e", "n", "-", "f", "r", "e", "e">>,
      <<"l", "a", "c", "t", "o", "s", "e", "_", "i", "n", "t", "o", "l", "e", "r", "a", "n", "t">>,
      <<"d", "a", "i", "r", "y", "_", "f", "r", "e", "e">>,
      <<"k", "e", "t", "o">>>>

\* favorite phrases: meat inside a phrase, no keyword, seafood, dairy, gluten
FoodVocab ==
    {<<"B", "e", "e", "f", " ", "s", "t", "e", "w">>,
     <<"r", "i", "c", "e">>,
     <<"S", "a", "l", "m", "o", "n">>,
     <<"c", "h", "e", "e", "s", "e">>,
     <<"b", "r", "e", "a", "d">>}

Peanuts == <<"P", "e", "a", "n", "u", "t", "s">>

\* the lists of at most n entries of RestrictionVocab, in its order, none twice
\* (the rules test membership and length only)
RECURSIVE RestrictionListsFrom(_, _)
RestrictionListsFrom(i, n) ==
    IF i > Len(RestrictionVocab) \/ n = 0 THEN {<< >>}
    ELSE RestrictionListsFrom(i + 1, n)
         \cup {<<RestrictionVocab[i]>> \o l : l \in RestrictionListsFrom(i + 1, n - 1)}

RestrictionLists == RestrictionListsFrom(1, MaxRestrictions)

\* the lists of at most n favorite phrases, in any order, repeats allowed
RECURSIVE FoodListsUpTo(_)
FoodListsUpTo(n) ==
    IF n = 0 THEN {<< >>}
    ELSE FoodListsUpTo(n - 1)
         \cup {<<f>> \o l : f \in FoodVocab, l \in {x \in FoodListsUpTo(n - 1) : Len(x) = n - 1}}

FavoriteLists == FoodListsUpTo(MaxFavorites)

Num(i) == Some(Int2Rat(i))

NoTargets ==
    [target_calories |-> None, target_protein_g |-> None, target_fat_g |-> None,
     target_carbs_g |-> None, weight_kg |-> None, goal |-> None]

\* no targets; 400 + 900 + 700 = 2000 at 2 g/kg; the 850-of-2000 mismatch of the
\* spec's example; 3.2 g/kg with 160 g of protein
TargetProfiles ==
    {NoTargets,
     [target_calories |-> Num(2000), target_protein_g |-> Num(100), target_fat_g |-> Num(100),
      target_carbs_g |-> Num(175), weight_kg |-> Num(50), goal |-> None],
     [target_calories |-> Num(2000), target_protein_g |-> Num(50), target_fat_g |-> Num(50),
      target_carbs_g |-> Num(50), weight_kg |-> None, goal |-> None],
     [target_calories |-> Num(2000), target_protein_g |-> Num(160), target_fat_g |-> Num(100),
      target_carbs_g |-> Num(115), weight_kg |-> Num(50), goal |-> Some("maintenance")]}

\* omitted lists; an error; a suggestion only; a warning
ListProfiles ==
    {[dietary_restrictions |-> None, foods_to_avoid |-> None, favorite_foods |-> None],
     [dietary_restrictions |-> <<RestrictionVocab[1]>>, foods_to_avoid |-> << >>,
      favorite_foods |-> <<<<"B", "e", "e", "f", " ", "s", "t", "e", "w">>, <<"r", "i", "c", "e">>>>],
     [dietary_restrictions |-> <<RestrictionVocab[2]>>, foods_to_avoid |-> <<Peanuts>>,
      favorite_foods |-> <<<<"r", "i", "c", "e">>>>],
     [dietary_restrictions |-> <<RestrictionVocab[4]>>, foods_to_avoid |-> << >>,
      favorite_foods |-> <<<<"b", "r", "e", "a", "d">>>>]}

\* kcal: omitted, zero, the 30 * 50 kg threshold, 2000
CalorieTargets == {None, Num(0), Num(1500), Num(2000)}

\* g: omitted, zero, 0.8 and 3.0 g/kg of 50 kg, just beyond, and in between
ProteinTargets == {None, Num(0), Num(40), Num(100), Num(150), Num(151)}

FatTargets == {None, Num(0), Num(50), Num(100)}

\* g: with 100 g protein and 100 g fat: 1796, 1800, 2000, 2200 and 2204 kcal
CarbTargets == {None, Num(0), Num(124), Num(125), Num(175), Num(225), Num(226)}

BodyWeights == {None, Num(0), Num(50), Num(80), Num(125)}

GoalInputs == {None, Some(""), Some("weight_loss"), Some("muscle_gain"), Some("maintenance")}

\* the record r extended by the fields of q
Merge(r, q) == [k \in DOMAIN r \cup DOMAIN q |-> IF k \in DOMAIN q THEN q[k] ELSE r[k]]

\* every bounded list input, each with a few target profiles
DietArgs ==
    {Merge(t, [dietary_restrictions |-> d, foods_to_avoid |-> << >>, favorite_foods |-> f]) :
        d \in RestrictionLists, f \in FavoriteLists, t \in TargetProfiles}

\* every bounded numeric input, each with a few list profiles
TargetArgs ==
    {Merge(l, [target_calories |-> c, target_protein_g |-> p, target_fat_g |-> f,
               target_carbs_g |-> cb, weight_kg |-> w, goal |-> g]) :
        l \in ListProfiles, c \in CalorieTargets, p \in ProteinTargets, f \in FatTargets,
        cb \in CarbTargets, w \in BodyWeights, g \in GoalInputs}

MaxRestrictionCount == 5

MaxAvoided == 11

\* n restrictions no rule knows, all the same
KetoRun(n) == [i \in 1..n |-> RestrictionVocab[7]]

\* the first n entries of RestrictionVocab taken round and round
VocabRun(n) == [i \in 1..n |-> RestrictionVocab[((i - 1) % Len(RestrictionVocab)) + 1]]

\* n avoided foods, all the same
PeanutRun(n) == [i \in 1..n |-> Peanuts]

\* long lists: up to MaxRestrictionCount restrictions and MaxAvoided avoided foods
VolumeArgs ==
    {Merge(NoTargets, [dietary_restrictions |-> d, foods_to_avoid |-> PeanutRun(m),
                       favorite_foods |-> f]) :
        d \in {KetoRun(n) : n \in 0..MaxRestrictionCount}
                \cup {VocabRun(n) : n \in 0..MaxRestrictionCount},
        m \in 0..MaxAvoided,
        f \in {<< >>, <<<<"b", "r", "e", "a", "d">>>>}}

ValidatorArgs == DietArgs \cup TargetArgs \cup VolumeArgs

(***************************************************************************)
(* SpecValidator: one call of validate_consultation_data, for every        *)
(* bounded input                                                           *)
(***************************************************************************)
InitValidator ==
    /\ pc = "called"
    /\ call \in [fn : {"validate_consultation_data"}, args : ValidatorArgs]
    /\ ret = None
    /\ locals = None
    /\ state = << >>
    /\ log = << >>

NextValidator == validate_consultation_data

SpecValidator == InitValidator /\ [][NextValidator]_vars

(***************************************************************************)
(* Claims about validate_consultation_data, checked under SpecValidator    *)
(***************************************************************************)
ValidateReturned == pc = "returned" /\ call.fn = "validate_consultation_data"

Range(seq) == {seq[i] : i \in 1..Len(seq)}

\* a phrase with every letter in lower case
CaseFold(phrase) == [i \in 1..Len(phrase) |-> lower_char(phrase[i])]

\* the keyword is spelled out, letter by letter, somewhere in the folded phrase
Mentions(folded, keyword) ==
    \E i \in 1..Len(folded) :
        /\ i + Len(keyword) - 1 <= Len(folded)
        /\ \A n \in 1..Len(keyword) : folded[i + n - 1] = keyword[n]

MentionsAny(folded, keywords) == \E k \in keywords : Mentions(folded, k)

\* the supplied favorites, case-folded, that mention one of the keywords in
\* any letter case, in order
Matching(a, keywords) ==
    SelectSeq([i \in 1..Len(a.favorite_foods) |-> CaseFold(a.favorite_foods[i])],
              LAMBDA f : MentionsAny(f, keywords))

\* a restriction that spells the name in some letter case
Restricts(a, name) == \E r \in Range(a.dietary_restrictions) : CaseFold(r) = name

MeatKeywords == Range(MEAT_FOODS)

AnimalKeywords == Range(MEAT_FOODS) \cup Range(NON_MEAT_ANIMAL_PRODUCTS)

SeafoodKeywords == Range(SEAFOOD)

AllFindings == Range(locals.errors) \cup Range(locals.warnings)

\* C1: the status is "error" iff an error finding was produced, "warning" iff
\* none but a warning finding was, "success" otherwise; valid is False exactly
\* when the status is "error"; an error and a warning together give "error".
C1_StatusPrecedence ==
    ValidateReturned =>
        /\ ret.status = "error" <=> locals.errors # << >>
        /\ ret.status = "warning" <=> (locals.errors = << >> /\ locals.warnings # << >>)
        /\ ret.status = "success" <=> (locals.errors = << >> /\ locals.warnings = << >>)
        /\ ret.valid = FALSE <=> ret.status = "error"
        /\ ret.valid \in BOOLEAN

\* an error finding and a warning finding in one call
C1_Witness ==
    /\ ValidateReturned
    /\ locals.errors # << >>
    /\ locals.warnings # << >>
    /\ ret.status = "error"

\* C2: "vegetarian" in any letter case with a favorite that mentions a
\* MEAT_FOODS keyword in any letter case gives status "error", valid False,
\* and a dietary_contradiction error of severity high whose issue text lists
\* exactly the matching favorites.
C2_VegetarianMeat ==
    (ValidateReturned /\ Restricts(call.args, vegetarian)) =>
        LET matching == Matching(call.args, MeatKeywords)
        IN  matching # << >>
               => /\ ret.status = "error"
                  /\ ret.valid = FALSE
                  /\ \E e \in Range(ret.errors) :
                        /\ e.type = "dietary_contradiction"
                        /\ e.severity = "high"
                        /\ Tail(e.issue) = join(", ", matching)

\* "Vegetarian" with "Beef stew" and a favorite that mentions no meat
C2_Witness ==
    /\ ValidateReturned
    /\ RestrictionVocab[1] \in Range(call.args.dietary_restrictions)
    /\ Len(Matching(call.args, MeatKeywords)) = 1
    /\ Len(call.args.favorite_foods) = 2
    /\ \E f \in Range(call.args.favorite_foods) : f # CaseFold(f) /\ MentionsAny(CaseFold(f), MeatKeywords)
    /\ ret.status = "error"

\* C3: "vegan" with a favorite that mentions an ANIMAL_PRODUCTS keyword gives
\* status "error" and a dietary_contradiction error of severity critical
\* listing the matching favorites.
C3_VeganAnimal ==
    (ValidateReturned /\ Restricts(call.args, vegan)) =>
        LET matching == Matching(call.args, AnimalKeywords)
        IN  matching # << >>
               => /\ ret.status = "error"
                  /\ \E e \in Range(ret.errors) :
                        /\ e.type = "dietary_contradiction"
                        /\ e.severity = "critical"
                        /\ Tail(e.issue) = join(", ", matching)

\* a vegan whose favorites mention a meat and a non-meat animal product
C3_Witness ==
    /\ ValidateReturned
    /\ Restricts(call.args, vegan)
    /\ Matching(call.args, MeatKeywords) # << >>
    /\ Len(Matching(call.args, AnimalKeywords)) > Len(Matching(call.args, MeatKeywords))
    /\ ret.status = "error"

\* no rule but the seafood one can fire: vegetarian is the only restriction,
\* no favorite mentions meat, no numeric input or goal, fewer than 10 avoided foods
OnlySeafoodRule(a) ==
    /\ \A r \in Range(a.dietary_restrictions) : CaseFold(r) = vegetarian
    /\ Matching(a, MeatKeywords) = << >>
    /\ a.target_calories = None /\ a.target_protein_g = None
    /\ a.target_fat_g = None /\ a.target_carbs_g = None
    /\ a.weight_kg = None /\ a.goal = None
    /\ Len(a.foods_to_avoid) < 10

\* C4: "vegetarian" with a favorite that mentions a SEAFOOD keyword produces
\* the pescatarian suggestion and, for it, neither an error nor a warning: no
\* dietary_contradiction error unless a favorite mentions meat or the user is
\* vegan; when no other rule fires the result is status "success", valid
\* True, with the suggestions list holding the hint and no errors or warnings.
C4_PescatarianHint ==
    (/\ ValidateReturned
     /\ Restricts(call.args, vegetarian)
     /\ Matching(call.args, SeafoodKeywords) # << >>)
        => /\ \E h \in Range(locals.suggestions) :
                 /\ SubSeq(h, 2, Len(h) - 1) = join(", ", Matching(call.args, SeafoodKeywords))
                 /\ h[Len(h)] = ") - consider asking if they're pescatarian instead of vegetarian"
           /\ (Matching(call.args, MeatKeywords) = << >> /\ ~Restricts(call.args, vegan))
                 => \A e \in AllFindings : e.type # "dietary_contradiction"
           /\ OnlySeafoodRule(call.args)
                 => /\ ret.status = "success"
                    /\ ret.valid = TRUE
                    /\ "suggestions" \in DOMAIN ret
                    /\ ret.suggestions = locals.suggestions
                    /\ "errors" \notin DOMAIN ret
                    /\ "warnings" \notin DOMAIN ret

\* a vegetarian whose only matching favorite is seafood
C4_Witness ==
    /\ ValidateReturned
    /\ Restricts(call.args, vegetarian)
    /\ Matching(call.args, SeafoodKeywords) # << >>
    /\ OnlySeafoodRule(call.args)
    /\ ret.status = "success"
    /\ Len(ret.suggestions) = 1

AllFourSupplied(a) ==
    /\ a.target_calories # None /\ a.target_protein_g # None
    /\ a.target_fat_g # None /\ a.target_carbs_g # None

\* |4*protein + 9*fat + 4*carbs - calories| > calories / 10
OffByMoreThanTenth(a) ==
    LET total == RAdd(RAdd(RMul(Int2Rat(4), a.target_protein_g[1]),
                           RMul(Int2Rat(9), a.target_fat_g[1])),
                      RMul(Int2Rat(4), a.target_carbs_g[1]))
    IN  RGt(RAbs(RSub(total, a.target_calories[1])),
            RDiv(a.target_calories[1], Int2Rat(10)))

HasFinding(type) == \E e \in AllFindings : e.type = type

\* C5: whenever all four numeric targets are supplied, a target of 0 included,
\* there is a macro_mismatch error (and status "error") if and only if
\* |4*protein_g + 9*fat_g + 4*carbs_g - target_calories| exceeds 10 % of
\* target_calories.
C5_MacroMismatch ==
    (ValidateReturned /\ AllFourSupplied(call.args))
        => /\ HasFinding("macro_mismatch") <=> OffByMoreThanTenth(call.args)
           /\ OffByMoreThanTenth(call.args) => ret.status = "error"
           /\ \A e \in Range(locals.warnings) : e.type # "macro_mismatch"

\* C6: an omitted numeric target means no macro_mismatch, low_protein or
\* high_protein finding; an omitted goal, target_calories or weight_kg means
\* no goal_mismatch finding; a call with no numeric and no list input returns
\* status "success".
C6_OmittedInputs ==
    ValidateReturned =>
        /\ ~AllFourSupplied(call.args)
              => /\ ~HasFinding("macro_mismatch")
                 /\ ~HasFinding("low_protein")
                 /\ ~HasFinding("high_protein")
        /\ (call.args.goal = None \/ call.args.target_calories = None
            \/ call.args.weight_kg = None)
              => ~HasFinding("goal_mismatch")
        /\ (/\ call.args.target_calories = None /\ call.args.target_protein_g = None
            /\ call.args.target_fat_g = None /\ call.args.target_carbs_g = None
            /\ call.args.weight_kg = None /\ call.args.goal = None
            /\ call.args.dietary_restrictions = << >>
            /\ call.args.foods_to_avoid = << >>
            /\ call.args.favorite_foods = << >>)
              => /\ ret.status = "success"
                 /\ ret.valid = TRUE
                 /\ DOMAIN ret = {"status", "valid", "message"}

\* protein, weight and a goal supplied with a ratio below 0.8 g/kg, the calorie
\* target omitted: nothing is found
C6_Witness ==
    /\ ValidateReturned
    /\ call.args.target_calories = None
    /\ call.args.target_protein_g = Num(40)
    /\ call.args.weight_kg = Num(125)
    /\ call.args.goal = Some("muscle_gain")
    /\ call.args.target_fat_g # None /\ call.args.target_carbs_g # None
    /\ AllFindings = {}

\* the status that the errors and warnings alone determine
StatusWithoutSuggestions ==
    IF locals.errors # << >> THEN "error"
    ELSE IF locals.warnings # << >> THEN "warning"
    ELSE "success"

\* C16: the status is the one the errors and warnings alone determine,
\* whether or not suggestions were computed; an "error" result has no
\* suggestions field even when suggestions were computed; a "warning" or
\* "success" result carries every suggestion computed, in order.
C16_SuggestionsInformational ==
    ValidateReturned =>
        /\ ret.status = StatusWithoutSuggestions
        /\ ret.status = "error" => "suggestions" \notin DOMAIN ret
        /\ (ret.status \in {"warning", "success"} /\ locals.suggestions # << >>)
              => /\ "suggestions" \in DOMAIN ret
                 /\ ret.suggestions = locals.suggestions
        /\ "suggestions" \in DOMAIN ret => ret.suggestions # << >>

\* a vegan who likes meat: the vegan-implies-vegetarian suggestion is computed
\* and the error result drops it
C16_Witness ==
    /\ ValidateReturned
    /\ locals.suggestions # << >>
    /\ ret.status = "error"
    /\ "suggestions" \notin DOMAIN ret

\* C17: on the error path suggested_resolution is the resolution of the first
\* error, or of the first two joined by " OR "; the message counts all the
\* errors and quotes the issue texts of the first two at most; errors and
\* error_count report every error finding, in rule order (vegetarian, vegan,
\* macro), a third one included whose resolution is not surfaced.
C17_FirstTwoResolutions ==
    (ValidateReturned /\ locals.errors # << >>) =>
        /\ ret.errors = locals.errors
        /\ ret.error_count = Len(locals.errors)
        /\ ret.suggested_resolution =
              IF Len(locals.errors) = 1
              THEN <<locals.errors[1].resolution>>
              ELSE <<locals.errors[1].resolution, " OR ", locals.errors[2].resolution>>
        /\ ret.message =
              <<"Found ", Len(locals.errors), " critical contradiction(s): ">>
              \o (IF Len(locals.errors) = 1
                  THEN <<locals.errors[1].issue>>
                  ELSE <<locals.errors[1].issue, "; ", locals.errors[2].issue>>)
        /\ Len(locals.errors) = 3
              => /\ locals.errors[1].severity = "high"
                 /\ locals.errors[2].severity = "critical"
                 /\ locals.errors[3].type = "macro_mismatch"
                 /\ Len(ret.suggested_resolution) = 3
                 /\ \A i \in {1, 3} :
                       ret.suggested_resolution[i] # locals.errors[3].resolution
                 /\ Len(ret.message) = 6
                 /\ \A i \in {4, 6} : ret.message[i] # locals.errors[3].issue

\* a vegetarian and vegan who likes meat, with macros that do not add up
C17_Witness ==
    /\ ValidateReturned
    /\ Len(locals.errors) = 3
    /\ ret.error_count = 3
    /\ Len(ret.suggested_resolution) = 3

HasWarning(type) == \E w \in Range(locals.warnings) : w.type = type

HasError(type) == \E e \in Range(locals.errors) : e.type = type

\* C18: when weight_kg and all four macro targets are supplied, there is a
\* low_protein warning exactly when target_protein_g / weight_kg < 0.8, a
\* high_protein warning exactly when it is > 3.0, neither in between, never
\* both, and neither is ever an error.
C18_ProteinDensity ==
    (/\ ValidateReturned
     /\ AllFourSupplied(call.args)
     /\ call.args.weight_kg # None
     /\ RGt(call.args.weight_kg[1], Int2Rat(0)))
        => /\ HasWarning("low_protein")
                 <=> RLt(RDiv(call.args.target_protein_g[1], call.args.weight_kg[1]), Rat(4, 5))
           /\ HasWarning("high_protein")
                 <=> RGt(RDiv(call.args.target_protein_g[1], call.args.weight_kg[1]), Int2Rat(3))
           /\ ~(HasWarning("low_protein") /\ HasWarning("high_protein"))
           /\ ~HasError("low_protein") /\ ~HasError("high_protein")

\* C19: whenever dietary_restrictions include "vegan" or "vegetarian" and
\* target_protein_g exceeds 150, the findings include a difficult_target
\* warning, whatever the protein-density rule finds.
C19_DifficultTarget ==
    (/\ ValidateReturned
     /\ Restricts(call.args, vegan) \/ Restricts(call.args, vegetarian)
     /\ call.args.target_protein_g # None
     /\ RGt(call.args.target_protein_g[1], Int2Rat(150)))
        => HasWarning("difficult_target")

\* C20: when goal, target_calories and weight_kg are all supplied, there is a
\* goal_mismatch warning exactly when the goal is weight_loss and
\* target_calories > 30 * weight_kg, or the goal is muscle_gain and
\* target_calories < 25 * weight_kg; it is never an error.
C20_GoalMismatch ==
    (/\ ValidateReturned
     /\ call.args.goal # None
     /\ call.args.target_calories # None
     /\ call.args.weight_kg # None)
        => /\ HasWarning("goal_mismatch")
                 <=> \/ /\ call.args.goal[1] = "weight_loss"
                        /\ RGt(call.args.target_calories[1],
                               RMul(Int2Rat(30), call.args.weight_kg[1]))
                     \/ /\ call.args.goal[1] = "muscle_gain"
                        /\ RLt(call.args.target_calories[1],
                               RMul(Int2Rat(25), call.args.weight_kg[1]))
           /\ ~HasError("goal_mismatch")

\* the length of an optional list, None counting as empty
CountOf(lst) == IF lst = None THEN 0 ELSE Len(lst)

\* C21: there is a too_restrictive warning exactly when dietary_restrictions
\* has 4 or more entries and a too_many_avoided_foods warning exactly when
\* foods_to_avoid has 10 or more, whatever the entries are (duplicates and
\* unrecognised strings count); neither is ever an error.
C21_VolumeChecks ==
    ValidateReturned =>
        /\ HasWarning("too_restrictive") <=> CountOf(call.args.dietary_restrictions) >= 4
        /\ HasWarning("too_many_avoided_foods") <=> CountOf(call.args.foods_to_avoid) >= 10
        /\ ~HasError("too_restrictive")
        /\ ~HasError("too_many_avoided_foods")

\* exactly four copies of an unrecognised restriction and exactly ten copies
\* of one avoided food
C21_Witness ==
    /\ ValidateReturned
    /\ call.args.dietary_restrictions = KetoRun(4)
    /\ call.args.foods_to_avoid = PeanutRun(10)
    /\ HasWarning("too_restrictive")
    /\ HasWarning("too_many_avoided_foods")
    /\ ret.warning_count = 2

GlutenKeywords == Range(GLUTEN_FOODS)

DairyKeywords == Range(DAIRY_FOODS)

\* a warning of the dietary rules that lists exactly these favorites
DietaryWarningListing(matching) ==
    \E w \in Range(locals.warnings) :
        /\ w.type = "dietary_warning"
        /\ w.severity = "medium"
        /\ Tail(w.issue) = join(", ", matching)

\* C22: "gluten_free" or "gluten-free" with a favorite that mentions a
\* GLUTEN_FOODS keyword, and "lactose_intolerant" or "dairy_free" with a
\* favorite that mentions a DAIRY_FOODS keyword, each give a dietary_warning
\* of severity medium and no error of their own; when no error rule fires
\* the result is status "warning", valid True.
C22_GlutenDairyWarnings ==
    ValidateReturned =>
        LET gluten == Matching(call.args, GlutenKeywords)
            dairy  == Matching(call.args, DairyKeywords)
            gluten_case == /\ Restricts(call.args, gluten_free)
                              \/ Restricts(call.args, gluten_free_hyphen)
                           /\ gluten # << >>
            dairy_case  == /\ Restricts(call.args, lactose_intolerant)
                              \/ Restricts(call.args, dairy_free)
                           /\ dairy # << >>
        IN  /\ gluten_case => DietaryWarningListing(gluten)
            /\ dairy_case => DietaryWarningListing(dairy)
            /\ ~HasError("dietary_warning")
            /\ ((gluten_case \/ dairy_case) /\ locals.errors = << >>)
                  => (ret.status = "warning" /\ ret.valid = TRUE)
            /\ HasWarning("dietary_warning") => (gluten_case \/ dairy_case)

\* the hyphen spelling with bread, nothing else found
C22_Witness ==
    /\ ValidateReturned
    /\ Restricts(call.args, gluten_free_hyphen)
    /\ ~Restricts(call.args, gluten_free)
    /\ Matching(call.args, GlutenKeywords) # << >>
    /\ ret.status = "warning"
    /\ ret.warning_count = 1

\* the favorites an error's issue text lists: every other piece after the
\* opening words
ListedIn(e) == {e.issue[2 * k] : k \in 1..(Len(e.issue) \div 2)}

\* C30: with both "vegan" and "vegetarian" and a favorite that mentions meat,
\* the vegetarian error (severity high) comes first and the vegan error
\* (severity critical) second, every favorite the first lists is listed by
\* the second, and a single meat favorite with no other error gives
\* error_count 2.
C30_BothErrors ==
    (/\ ValidateReturned
     /\ Restricts(call.args, vegan)
     /\ Restricts(call.args, vegetarian)
     /\ Matching(call.args, MeatKeywords) # << >>)
        => /\ Len(locals.errors) >= 2
           /\ locals.errors[1].type = "dietary_contradiction"
           /\ locals.errors[1].severity = "high"
           /\ locals.errors[2].type = "dietary_contradiction"
           /\ locals.errors[2].severity = "critical"
           /\ ListedIn(locals.errors[1]) = Range(Matching(call.args, MeatKeywords))
           /\ ListedIn(locals.errors[1]) \subseteq ListedIn(locals.errors[2])
           /\ ret.status = "error"
           /\ ~HasError("macro_mismatch")
                 => (ret.error_count = 2 /\ Len(ret.errors) = 2)

\* one meat favorite, listed by both errors
C30_Witness ==
    /\ ValidateReturned
    /\ Restricts(call.args, vegan)
    /\ Restricts(call.args, vegetarian)
    /\ Len(call.args.favorite_foods) = 1
    /\ Len(Matching(call.args, MeatKeywords)) = 1
    /\ ret.error_count = 2
    /\ ListedIn(ret.errors[1]) = ListedIn(ret.errors[2])

(***************************************************************************)
(* Reading the session: retrieve_kbju_calculation (kbju_calculator.py) and *)
(* get_session_data (session_data_tool.py).  Every value the tools store   *)
(* in the session is a non-empty dict, so state.get(key) is true exactly   *)
(* when the key is there.                                                  *)
(***************************************************************************)
\* the truth of tool_context.state.get(key)
stored(st, key) == key \in DOMAIN st

\* the value retrieve_kbju_calculation returns on the session state st
retrieve_kbju_return(st) ==
    IF ~stored(st, "kbju_calculation")
    THEN [status        |-> "error",
          error_message |-> <<"No KBJU calculation found in session. Analysis must be completed first.">>]
    ELSE [status    |-> "success",
          kbju_data |-> st["kbju_calculation"],
          message   |-> <<"KBJU calculation retrieved successfully">>]

\* the call retrieve_kbju_calculation(tool_context) runs to its return
retrieve_kbju_calculation ==
    /\ pc = "called"
    /\ call.fn = "retrieve_kbju_calculation"
    /\ ret' = retrieve_kbju_return(state)
    /\ locals' = None
    /\ pc' = "returned"
    /\ UNCHANGED <<call, state, log>>

profile == <<"p", "r", "o", "f", "i", "l", "e">>

kbju == <<"k", "b", "j", "u">>

meal_plan == <<"m", "e", "a", "l", "_", "p", "l", "a", "n">>

\* the list "available", in the order the code appends
available_data(st) ==
    (IF stored(st, "user_profile") THEN <<"profile">> ELSE << >>)
    \o (IF stored(st, "kbju_calculation") THEN <<"kbju">> ELSE << >>)
    \o (IF stored(st, "meal_plan") THEN <<"meal_plan">> ELSE << >>)

\* result_data: the stored entries, under their session keys
all_session_data(st) ==
    [k \in {key \in {"user_profile", "kbju_calculation", "meal_plan"} : stored(st, key)} |-> st[k]]

\* the branch of one data type: an error while nothing is stored under key
one_data_type(st, key, missing, retrieved) ==
    IF ~stored(st, key)
    THEN [status |-> "error", error_message |-> <<missing>>]
    ELSE [status    |-> "success",
          data      |-> [k \in {key} |-> st[k]],
          available |-> available_data(st),
          message   |-> <<retrieved>>]

\* the return for a data_type that is set, already lower-cased
session_data_of_type(st, data_type) ==
    IF data_type = profile
    THEN one_data_type(st, "user_profile",
                       "No user profile found in session. Complete the interview first.",
                       "Retrieved user profile")
    ELSE IF data_type = kbju
    THEN one_data_type(st, "kbju_calculation",
                       "No KBJU calculation found. Calculate nutritional targets first.",
                       "Retrieved KBJU targets")
    ELSE IF data_type = meal_plan
    THEN one_data_type(st, "meal_plan",
                       "No meal plan found. Generate a meal plan first.",
                       "Retrieved meal plan")
    ELSE [status        |-> "error",
          error_message |-> <<"Invalid data_type '", data_type,
                              "'. Use 'profile', 'kbju', or 'meal_plan'.">>]

\* the value get_session_data returns on the session state st
session_data_return(st, data_type) ==
    IF data_type # None /\ data_type[1] # << >>
    THEN session_data_of_type(st, lower(data_type[1]))
    ELSE IF available_data(st) = << >>
    THEN [status        |-> "error",
          error_message |-> <<"No session data available. Start by completing the interview.">>]
    ELSE [status    |-> "success",
          data      |-> all_session_data(st),
          available |-> available_data(st),
          message   |-> <<"Retrieved all session data: ">> \o join(", ", available_data(st))]

\* the call get_session_data(tool_context, data_type) runs to its return
get_session_data ==
    /\ pc = "called"
    /\ call.fn = "get_session_data"
    /\ ret' = session_data_return(state, call.args.data_type)
    /\ locals' = None
    /\ pc' = "returned"
    /\ UNCHANGED <<call, state, log>>

(***************************************************************************)
(* Spec: one session.  The agent calls its tools one after another on the  *)
(* same tool_context; each call runs to its return before the next starts. *)
(***************************************************************************)
MaxCalls == 3

\* calculate_kbju inputs: two that succeed with different results, a
\* non-positive weight, a goal missing from the adjustment table, and one
\* whose protein and fat do not fit the calorie floor
SessionKbjuArgs ==
    {[weight_kg |-> Int2Rat(100), height_cm |-> Int2Rat(180), age |-> 48, gender |-> "male",
      activity_level |-> "sedentary", goal |-> "maintenance", goal_rate |-> "moderate"],
     [weight_kg |-> Rat(121, 2), height_cm |-> Int2Rat(165), age |-> 18, gender |-> "female",
      activity_level |-> "lightly_active", goal |-> "muscle_gain", goal_rate |-> "slow"],
     [weight_kg |-> Int2Rat(-5), height_cm |-> Int2Rat(180), age |-> 48, gender |-> "male",
      activity_level |-> "sedentary", goal |-> "maintenance", goal_rate |-> "moderate"],
     [weight_kg |-> Int2Rat(100), height_cm |-> Int2Rat(180), age |-> 48, gender |-> "male",
      activity_level |-> "sedentary", goal |-> "bulk", goal_rate |-> "moderate"],
     [weight_kg |-> Int2Rat(100), height_cm |-> Int2Rat(150), age |-> 18, gender |-> "male",
      activity_level |-> "sedentary", goal |-> "weight_loss", goal_rate |-> "aggressive"]}

\* validate_consultation_data inputs: the list profiles (nothing found, an
\* error, a suggestion only, a warning) without numeric targets
SessionValidatorArgs == {Merge(NoTargets, l) : l \in ListProfiles}

\* data_type: omitted, "kbju" in two letter cases, the other two types, an
\* unknown one
SessionDataTypes ==
    {None, Some(kbju), Some(<<"K", "B", "J", "U">>), Some(profile), Some(meal_plan),
     Some(<<"d", "i", "a", "r", "y">>)}

SessionCalls ==
    [fn : {"calculate_kbju"}, args : SessionKbjuArgs]
    \cup [fn : {"validate_consultation_data"}, args : SessionValidatorArgs]
    \cup [fn : {"retrieve_kbju_calculation"}, args : {<< >>}]
    \cup [fn : {"get_session_data"}, args : [data_type : SessionDataTypes]]

\* the session before the first call: new, or with the interview's profile saved
SessionStates ==
    {<< >>,
     [user_profile |-> [goal |-> "maintenance"], user_profile_completeness |-> Int2Rat(100)]}

\* the agent calls one of its tools
invoke ==
    /\ pc = "idle"
    /\ Len(log) < MaxCalls
    /\ \E c \in SessionCalls : call' = c
    /\ pc' = "called"
    /\ UNCHANGED <<ret, locals, state, log>>

\* the agent takes the returned value
receive ==
    /\ pc = "returned"
    /\ log' = Append(log, [fn |-> call.fn, args |-> call.args, ret |-> ret])
    /\ pc' = "idle"
    /\ UNCHANGED <<call, ret, locals, state>>

Init ==
    /\ pc = "idle"
    /\ call = None
    /\ ret = None
    /\ locals = None
    /\ state \in SessionStates
    /\ log = << >>

Next ==
    \/ invoke
    \/ calculate_kbju
    \/ validate_consultation_data
    \/ retrieve_kbju_calculation
    \/ get_session_data
    \/ receive

Spec == Init /\ [][Next]_vars

(***************************************************************************)
(* Claims about a session, checked under Spec                              *)
(***************************************************************************)
Returned == pc = "returned"

Statuses == {"success", "warning", "error"}

\* C12 as stated: every result of calculate_kbju and of
\* validate_consultation_data has a status among success, warning, error and
\* a message field.
C12_Original ==
    Returned => (ret.status \in Statuses /\ "message" \in DOMAIN ret)

\* C12 amended: every result has a status among success, warning, error; a
\* result of validate_consultation_data has a non-empty message on every
\* path; a result of calculate_kbju has no message field: its human-readable
\* text is error_message on the error paths and notes on the success path.
C12_StatusAndSummary ==
    Returned =>
        /\ ret.status \in Statuses
        /\ call.fn = "validate_consultation_data"
              => ("message" \in DOMAIN ret /\ ret.message # << >>)
        /\ call.fn = "calculate_kbju"
              => /\ "message" \notin DOMAIN ret
                 /\ ret.status \in {"success", "error"}
                 /\ ret.status = "error"
                       => ("error_message" \in DOMAIN ret /\ ret.error_message # << >>)
                 /\ ret.status = "success"
                       => ("notes" \in DOMAIN ret /\ ret.notes # << >>)

\* a calculator error after a validator call that returned a message
C12_Witness ==
    /\ Returned
    /\ call.fn = "calculate_kbju"
    /\ ret.status = "error"
    /\ "message" \notin DOMAIN ret
    /\ \E i \in 1..Len(log) :
          /\ log[i].fn = "validate_consultation_data"
          /\ log[i].ret.status = "success"
          /\ "message" \in DOMAIN log[i].ret

\* a call runs from "called" to "returned" in this step
CallReturns == pc = "called" /\ pc' = "returned"

Completed ==
    IF pc = "returned"
    THEN Append(log, [fn |-> call.fn, args |-> call.args, ret |-> ret])
    ELSE log

\* C15: two calls of the same function with identical inputs, at any two
\* points of a session, return identical results, whatever was called in
\* between and whatever the session held at the start.
C15_SameInputsSameOutputs ==
    \A i, j \in 1..Len(Completed) :
        (/\ Completed[i].fn \in {"calculate_kbju", "validate_consultation_data"}
         /\ Completed[i].fn = Completed[j].fn
         /\ Completed[i].args = Completed[j].args)
            => Completed[i].ret = Completed[j].ret

\* the same failing calculation before and after a successful one that
\* changed the session
C15_Witness ==
    /\ Len(log) = 3
    /\ log[1].fn = "calculate_kbju"
    /\ log[1].ret.status = "error"
    /\ log[2].fn = "calculate_kbju"
    /\ log[2].ret.status = "success"
    /\ log[3].fn = log[1].fn
    /\ log[3].args = log[1].args
    /\ log[3].ret = log[1].ret
    /\ "kbju_calculation" \in DOMAIN state

\* the positions in Completed of the calculate_kbju calls that succeeded
SuccessIndexes ==
    {i \in 1..Len(Completed) :
        Completed[i].fn = "calculate_kbju" /\ Completed[i].ret.status = "success"}

\* the result of the most recent calculate_kbju call that succeeded
LastSuccess ==
    Completed[CHOOSE i \in SuccessIndexes : \A j \in SuccessIndexes : j <= i].ret

\* C28: at every point of a session the kbju_calculation entry is the result
\* of the most recent calculate_kbju call that returned "success", and absent
\* while there was none; an error call leaves it as it was, so
\* retrieve_kbju_calculation and get_session_data("kbju") return that earlier
\* result, and return an error only while no call has succeeded.
C28_LastSuccessKept ==
    /\ stored(state, "kbju_calculation") <=> SuccessIndexes # {}
    /\ SuccessIndexes # {} => state["kbju_calculation"] = LastSuccess
    /\ (Returned /\ call.fn = "retrieve_kbju_calculation")
          => IF SuccessIndexes = {}
             THEN ret.status = "error"
             ELSE ret.status = "success" /\ ret.kbju_data = LastSuccess
    /\ (/\ Returned
        /\ call.fn = "get_session_data"
        /\ call.args.data_type \in {Some(kbju), Some(<<"K", "B", "J", "U">>)})
          => IF SuccessIndexes = {}
             THEN ret.status = "error"
             ELSE ret.status = "success" /\ ret.data["kbju_calculation"] = LastSuccess

\* a successful calculation, then a failing one, then a retrieval that still
\* returns the first result
C28_Witness ==
    /\ Returned
    /\ call.fn = "retrieve_kbju_calculation"
    /\ Len(log) = 2
    /\ log[1].fn = "calculate_kbju" /\ log[1].ret.status = "success"
    /\ log[2].fn = "calculate_kbju" /\ log[2].ret.status = "error"
    /\ ret.status = "success"
    /\ ret.kbju_data = log[1].ret

(***************************************************************************)
(* SpecPipeline: the consultation's analysis and validation stages.  One   *)
(* calculate_kbju call on inputs that pass its checks, and, when it        *)
(* succeeded, one validate_consultation_data call on its targets, the same *)
(* weight and goal, and the user's lists.                                  *)
(***************************************************************************)
\* the bounded inputs with positive numbers, an adult age and table keys
PipelineKbjuArgs ==
    {a \in KbjuArgs :
        /\ RGt(a.weight_kg, Int2Rat(0))
        /\ RGt(a.height_cm, Int2Rat(0))
        /\ a.age >= 18
        /\ ~adjustment_raises(a.goal, a.goal_rate)}

\* the user's lists: omitted, or a vegetarian who likes beef stew
PipelineLists == {l \in ListProfiles : l.foods_to_avoid # <<Peanuts>> /\ Len(l.favorite_foods) # 1}

\* validate_consultation_data(..., target_calories=..., weight_kg=..., goal=...)
\* with the values of the calculation that has just succeeded
cross_check ==
    /\ pc = "idle"
    /\ Len(log) = 1
    /\ log[1].fn = "calculate_kbju"
    /\ log[1].ret.status = "success"
    /\ \E l \in PipelineLists :
          call' = [fn   |-> "validate_consultation_data",
                   args |-> Merge(l, [target_calories  |-> Some(log[1].ret.target_calories),
                                      target_protein_g |-> Some(log[1].ret.protein_g),
                                      target_fat_g     |-> Some(log[1].ret.fat_g),
                                      target_carbs_g   |-> Some(log[1].ret.carbs_g),
                                      weight_kg        |-> Some(log[1].args.weight_kg),
                                      goal             |-> Some(log[1].args.goal)])]
    /\ pc' = "called"
    /\ UNCHANGED <<ret, locals, state, log>>

InitPipeline ==
    /\ pc = "called"
    /\ call \in [fn : {"calculate_kbju"}, args : PipelineKbjuArgs]
    /\ ret = None
    /\ locals = None
    /\ state = << >>
    /\ log = << >>

NextPipeline ==
    \/ calculate_kbju
    \/ receive
    \/ cross_check
    \/ validate_consultation_data

SpecPipeline == InitPipeline /\ [][NextPipeline]_vars

\* C29: the validator, given a success result's target_calories, protein_g,
\* fat_g and carbs_g with the weight_kg of the same call, finds no
\* macro_mismatch error, no low_protein and no high_protein warning, whatever
\* the dietary lists are.
C29_CalculatorPassesValidator ==
    (ValidateReturned /\ Len(log) = 1)
        => /\ ~HasError("macro_mismatch")
           /\ ~HasWarning("low_protein")
           /\ ~HasWarning("high_protein")

\* the macro and protein checks ran on a result whose rounded parts do not
\* add up exactly, next to a dietary error of the lists
C29_Witness ==
    /\ ValidateReturned
    /\ Len(log) = 1
    /\ protein_check_applies(call.args)
    /\ total_macro_cal(call.args) # call.args.target_calories[1]
    /\ HasError("dietary_contradiction")
    /\ ~HasError("macro_mismatch")

(***************************************************************************)
(* SpecConcurrent: invocations in flight at the same time.  Every caller   *)
(* p has its own call, position and return value; callers of one session   *)
(* share that session's state.  calculate_kbju computes its result from    *)
(* its arguments and then, in a second step another caller can precede,    *)
(* stores it; validate_consultation_data touches no session.  Here pc,     *)
(* call, ret and locals are functions of the caller, state is a function   *)
(* of the session, and log is the order in which the callers stored.       *)
(***************************************************************************)
MaxProcs == 2

Procs == 1..MaxProcs

SessionIds == {"s1", "s2"}

\* two successes, an invalid input and an infeasible target
ConcurrentKbjuArgs == {a \in SessionKbjuArgs : a.goal \in TableGoals}

\* nothing found; a dietary error
ConcurrentValidatorArgs ==
    {a \in SessionValidatorArgs : a.foods_to_avoid # <<Peanuts>> /\ Len(a.favorite_foods) # 1}

ConcurrentCalls ==
    [fn : {"calculate_kbju"}, args : ConcurrentKbjuArgs, session : SessionIds]
        \cup [fn : {"validate_consultation_data"}, args : ConcurrentValidatorArgs,
              session : SessionIds]

\* calculate_kbju up to the result it is about to store: arguments only
calculate_kbju_compute(p) ==
    /\ pc[p] = "called"
    /\ call[p].fn = "calculate_kbju"
    /\ ret' = [ret EXCEPT ![p] = kbju_return(call[p].args)]
    /\ pc' = [pc EXCEPT ![p] = "computed"]
    /\ UNCHANGED <<call, locals, state, log>>

\* tool_context.state["kbju_calculation"] = result; return result
calculate_kbju_save(p) ==
    /\ pc[p] = "computed"
    /\ state' = [state EXCEPT ![call[p].session] = save_kbju(ret[p], @)]
    /\ log' = IF ret[p].status = "success" THEN Append(log, p) ELSE log
    /\ pc' = [pc EXCEPT ![p] = "returned"]
    /\ UNCHANGED <<call, ret, locals>>

\* validate_consultation_data: arguments in, a result out, no session access
validate_consultation_data_call(p) ==
    /\ pc[p] = "called"
    /\ call[p].fn = "validate_consultation_data"
    /\ locals' = [locals EXCEPT ![p] = findings(call[p].args)]
    /\ ret' = [ret EXCEPT ![p] = compile_results(locals'[p].errors, locals'[p].warnings,
                                                 locals'[p].suggestions)]
    /\ pc' = [pc EXCEPT ![p] = "returned"]
    /\ UNCHANGED <<call, state, log>>

InitConcurrent ==
    /\ pc = [p \in Procs |-> "called"]
    /\ call \in [Procs -> ConcurrentCalls]
    /\ ret = [p \in Procs |-> None]
    /\ locals = [p \in Procs |-> None]
    /\ state = [s \in SessionIds |-> << >>]
    /\ log = << >>

NextConcurrent ==
    \/ \E p \in Procs : calculate_kbju_compute(p)
    \/ \E p \in Procs : calculate_kbju_save(p)
    \/ \E p \in Procs : validate_consultation_data_call(p)

SpecConcurrent == InitConcurrent /\ [][NextConcurrent]_vars

\* validate_consultation_data's return value for what it found
validate_return(found) == compile_results(found.errors, found.warnings, found.suggestions)

\* what the invocation returns when nothing else runs
ReturnsAlone(c) ==
    IF c.fn = "calculate_kbju"
    THEN kbju_return(c.args)
    ELSE validate_return(findings(c.args))

\* every invocation that has returned after this step returned what it
\* returns alone
IsolatedReturns == \A p \in Procs : pc'[p] = "returned" => ret'[p] = ReturnsAlone(call'[p])

\* no entry a session holds is replaced or removed in this step
NothingOverwritten ==
    \A s \in SessionIds : \A k \in DOMAIN state[s] :
        k \in DOMAIN state'[s] /\ state'[s][k] = state[s][k]

\* caller p stores in this step
Saves(p) == pc[p] = "computed" /\ pc'[p] = "returned"

====
